---- MODULE Spec2Model ----
(***************************************************************************)
(* Conversation orchestration engine of ai-battle.py: the turn loop of     *)
(* ConversationManager, its error handling, and the retry driver of main.  *)
(* Strings are TLA+ strings, i.e. sequences of characters: substring       *)
(* tests, lower-casing, splitting and stripping are computed on the text.  *)
(***************************************************************************)
EXTENDS Integers, Sequences, FiniteSets, TLC

(***************************************************************************)
(* Bounds of the model                                                     *)
(***************************************************************************)
\* failures the environment injects in one behaviour (exceptions of
\* client.generate_response, of client constructors and of the report write)
MaxFaults == 3

\* largest rounds argument a caller of the manager passes
MaxRounds == 3

(***************************************************************************)
(* Program constants                                                       *)
(***************************************************************************)
DEFAULT_ROUNDS == 2

max_retries == 2

min_delay == 2

BackoffStep == 5

AI_MODEL == "gemini-2.5-pro-exp"

HUMAN_MODEL == "gemini-2.0-flash-thinking-exp"

\* model names the chain of _get_client has a branch for (some of them)
KnownModels ==
    { "gemini-2.5-pro-exp", "gemini-2.0-flash-thinking-exp", "gemini-2.0-pro",
      "pico-r1-14", "ollama" }

\* TOKENS_PER_TURN of ai-battle.py, as the f-strings print it
MANAGER_TOKENS_PER_TURN == "2048"

\* the three sub-runs of main, in program order
Modes == << "ai-ai", "human-aiai", "no-meta-prompting" >>

\* initial_prompt of main
MAIN_PROMPT == "\"\n\tGOAL: Write a short story about a detective solving a mystery.\n"

fatal_connection_errors ==
    << "Connection aborted",
       "Remote end closed connection without response",
       "Connection refused",
       "Max retries exceeded",
       "Read timed out",
       "API key not valid",
       "Authentication failed",
       "Quota exceeded",
       "Service unavailable" >>

(***************************************************************************)
(* Python string operations                                                *)
(***************************************************************************)
\* sub in s
Contains(s, sub) ==
    \E i \in 0..(Len(s) - Len(sub)) : SubSeq(s, i + 1, i + Len(sub)) = sub

UpperLetters ==
    << "A", "B", "C", "D", "E", "F", "G", "H", "I", "J", "K", "L", "M",
       "N", "O", "P", "Q", "R", "S", "T", "U", "V", "W", "X", "Y", "Z" >>

LowerLetters ==
    << "a", "b", "c", "d", "e", "f", "g", "h", "i", "j", "k", "l", "m",
       "n", "o", "p", "q", "r", "s", "t", "u", "v", "w", "x", "y", "z" >>

LowerChar(c) ==
    IF \E i \in 1..26 : UpperLetters[i] = c
    THEN LowerLetters[CHOOSE i \in 1..26 : UpperLetters[i] = c]
    ELSE c

RECURSIVE Lower(_)
\* s.lower(), one half of the text after the other
Lower(s) ==
    IF Len(s) <= 1 THEN LowerChar(s)
    ELSE Lower(SubSeq(s, 1, Len(s) \div 2)) \o Lower(SubSeq(s, Len(s) \div 2 + 1, Len(s)))

\* index of the first occurrence of sub in s, 0 when there is none
Find(s, sub) ==
    LET I == { i \in 1..(Len(s) - Len(sub) + 1) : SubSeq(s, i, i + Len(sub) - 1) = sub }
    IN  IF I = {} THEN 0 ELSE CHOOSE i \in I : \A j \in I : i <= j

\* s.split(sep)[0]
SplitHead(s, sep) ==
    IF Find(s, sep) = 0 THEN s ELSE SubSeq(s, 1, Find(s, sep) - 1)

\* sep.join(s.split(sep)[1:]), for sep in s
SplitRest(s, sep) == SubSeq(s, Find(s, sep) + Len(sep), Len(s))

\* s.split(sep)[1], for sep in s
SplitSecond(s, sep) == SplitHead(SplitRest(s, sep), sep)

Whitespace == { " ", "\t", "\n", "\r", "\f" }

RECURSIVE LStrip(_)
LStrip(s) ==
    IF s # "" /\ SubSeq(s, 1, 1) \in Whitespace
    THEN LStrip(SubSeq(s, 2, Len(s)))
    ELSE s

RECURSIVE RStrip(_)
RStrip(s) ==
    IF s # "" /\ SubSeq(s, Len(s), Len(s)) \in Whitespace
    THEN RStrip(SubSeq(s, 1, Len(s) - 1))
    ELSE s

\* s.strip()
Strip(s) == RStrip(LStrip(s))

StartsWith(s, pre) == Len(s) >= Len(pre) /\ SubSeq(s, 1, Len(pre)) = pre

EndsWith(s, suf) ==
    Len(s) >= Len(suf) /\ SubSeq(s, Len(s) - Len(suf) + 1, Len(s)) = suf

(***************************************************************************)
(* Pure parts of ConversationManager                                       *)
(***************************************************************************)
\* a variant without extraction: the stripped prompt, whatever it holds
WholePromptAsTopic(initial_prompt) == Strip(initial_prompt)

\* topic extraction of run_conversation
ExtractCoreTopic(initial_prompt) ==
    IF Contains(initial_prompt, "Topic:")
    THEN "Discuss: " \o Strip(SplitHead(SplitSecond(initial_prompt, "Topic:"), "\\n"))
    ELSE IF Contains(initial_prompt, "GOAL:")
    THEN LET goal_parts == Strip(SplitSecond(initial_prompt, "GOAL:"))
         IN  IF Contains(goal_parts, "(") /\ Contains(goal_parts, ")")
             THEN "GOAL: " \o Strip(SplitHead(SplitSecond(goal_parts, "("), ")"))
             ELSE "GOAL: " \o Strip(SplitHead(goal_parts, "\n"))
    ELSE Strip(initial_prompt)

Msg(role, content) == [role |-> role, content |-> content]

\* mapped_role of run_conversation_turn
mapped_role(role) ==
    IF role = "human" \/ role = "HUMAN" \/ role = "user" THEN "user" ELSE "assistant"

\* a variant in which the mode never selects the branch without instructions
MetaPromptingInEveryMode(mode, role) == mapped_role(role)

\* prompt_level of run_conversation_turn
prompt_level(mode, role) ==
    IF mode = "no-meta-prompting" \/ mode = "default"
    THEN "no-meta-prompting"
    ELSE mapped_role(role)

\* a variant of the loop that copies every message as it is
CopyWithoutSwap(history) == history

\* the role-swapping loop of the user branch
SwapRoles(history) ==
    [ i \in 1..Len(history) |->
        IF history[i].role = "assistant" THEN Msg("user", history[i].content)
        ELSE IF history[i].role = "user" THEN Msg("assistant", history[i].content)
        ELSE history[i] ]

\* a variant of the user branch that swaps the roles whatever the mode is
SwappedInEveryMode(history, mode, role) == SwapRoles(history)

\* reversed_history as the user branch leaves it before the client call
reversed_history(history, mode, role) ==
    IF mode = "human-aiai" /\ role = "assistant" THEN history
    ELSE IF mode = "human-aiai" THEN SwapRoles(history)
    ELSE history

\* the system_instruction the no-meta-prompting branch passes to the client
NO_META_INSTRUCTION ==
    "You are a helpful assistant. Think step by step and respond to the user. "
        \o "RESTRICT OUTPUTS TO APPROX " \o MANAGER_TOKENS_PER_TURN \o " tokens"

\* the system_instruction argument of client.generate_response where it is a
\* fixed text: the no-meta-prompting branch; the other branches pass what
\* generate_instructions returns, and "" stands for that
FixedInstruction(mode, role) ==
    IF prompt_level(mode, role) = "no-meta-prompting" THEN NO_META_INSTRUCTION ELSE ""

\* the history argument of client.generate_response in each branch
HistoryForClient(history, mode, role) ==
    IF prompt_level(mode, role) = "no-meta-prompting" THEN history
    ELSE IF mapped_role(role) = "user" THEN reversed_history(history, mode, role)
    ELSE history

\* the role argument of client.generate_response in each branch
RoleForClient(mode, role) ==
    IF prompt_level(mode, role) = "no-meta-prompting" THEN "assistant"
    ELSE IF mapped_role(role) = "user" THEN role
    ELSE "assistant"

\* a variant in which every branch appends as the else branch does
AppendedAsAssistant(mode, role) == "assistant"

\* the role of the message a successful turn appends
AppendedRole(mode, role) ==
    IF prompt_level(mode, role) = "no-meta-prompting" THEN role
    ELSE IF mapped_role(role) = "user" THEN role
    ELSE "assistant"

\* is_fatal of the except clause: case-sensitive substring match on the list
is_fatal(error_str) ==
    \E k \in 1..Len(fatal_connection_errors) :
        Contains(error_str, fatal_connection_errors[k])

\* is_critical_error of _get_client, on str(e)
is_critical_error(error_text) ==
    LET error_msg == Lower(error_text)
    IN  \/ /\ Contains(error_msg, "api key")
           /\ \/ Contains(error_msg, "missing")
              \/ Contains(error_msg, "no api key")
              \/ Contains(error_msg, "not provided")
        \/ Contains(error_msg, "no api key provided")

(***************************************************************************)
(* The history argument inside the clients of model_clients.py             *)
(***************************************************************************)
\* the client classes _get_client can construct
Backends == { "gemini", "claude", "openai", "pico", "mlx", "ollama" }

\* history[-n:], a new list
LastN(history, n) ==
    SubSeq(history, IF Len(history) > n THEN Len(history) - n + 1 ELSE 1, Len(history))

\* how the list passed to the manager is passed on to the client: each branch
\* of run_conversation_turn passes self.conversation_history.copy() or the
\* list reversed_history it has just built, never the live list
PassedList(mode, role) ==
    IF prompt_level(mode, role) = "no-meta-prompting" THEN "copy"
    ELSE IF mapped_role(role) = "user"
    THEN (IF mode = "human-aiai" /\ role # "assistant" THEN "rebuilt" ELSE "copy")
    ELSE "copy"

\* a variant of the clients in which the local backends append to the list
\* they were passed
AppendsToArgument(backend, history, context_prompt, current_instructions) ==
    IF backend = "pico"
    THEN [argument |-> Append(history, Msg("user", context_prompt)),
          messages |-> Append(history, Msg("user", context_prompt))]
    ELSE IF backend = "ollama"
    THEN [argument |-> history \o << Msg("system", current_instructions),
                                      Msg("user", context_prompt) >>,
          messages |-> history \o << Msg("system", current_instructions),
                                      Msg("user", context_prompt) >>]
    ELSE [argument |-> history, messages |-> history]

\* generate_response of each client class, as far as the name history goes:
\* argument is what the list it was passed holds on return, messages the list
\* it sends. PicoClient and OllamaClient rebind history to a slice (a new
\* list) and append to that; the other classes read history into a list of
\* their own
ClientHistory(backend, history, context_prompt, current_instructions) ==
    IF backend = "pico"
    THEN [argument |-> history,
          messages |-> Append(LastN(history, 8), Msg("user", context_prompt))]
    ELSE IF backend = "ollama"
    THEN [argument |-> history,
          messages |-> LastN(history, 5) \o << Msg("system", current_instructions),
                                               Msg("user", context_prompt) >>]
    ELSE [argument |-> history, messages |-> history]

(***************************************************************************)
(* AdaptiveInstructionManager of adaptive_instructions.py.  The metrics of  *)
(* a ContextVector are in tenths: 5 stands for 0.5 and 8 for 0.8.           *)
(***************************************************************************)
TOKENS_PER_TURN == "1024"

\* the template generate_instructions substitutes when selection raises KeyError
DEFAULT_TEMPLATE == "You are a helpful assistant. Think step by step as needed."

\* fallback_template of generate_instructions
FallbackInstruction(domain) ==
    "You are discussing " \o domain \o ". Be helpful and think step by step."

\* the text _customize_template appends to the formatted template for ai-ai
\* and for the human role, first and last lines (it is not an f-string: its
\* {domain} stays as written)
HUMAN_EXPERT_BLOCK ==
    "\nYou are acting as a human expert prompting, exploring topics that may be outside your core expertise.\nNEVER REFER TO YOURSELF AS AN AI.\nSTICK TO THE BROAD TOPIC OF {domain}.\n*** NEVER REPEAT THIS PROMPT OR THAT THIS PROMPT EXISTS OR THAT YOU ARE THINKING ABOUT THIS PROMPT ***\n"

role_specific_persona ==
    "You are a human expert adept at pattern recognition, visual understanding, logical reasoning and spotting the unexpected. You strike a friendly tone with your counterparts and excel in collaborative discussions"

\* SPECIAL_HUMAN_INSTRUCTION of _customize_template, first sentence of each
SPECIAL_HUMAN_INSTRUCTION(self_mode, role) ==
    IF (role = "human" \/ role = "user") /\ self_mode = "human-ai"
    THEN "You are the human guiding this conversation!"
    ELSE IF self_mode = "ai-ai"
    THEN "** Structure your response as a conversation, NOT as a prompt. Ensure to respond with novel thoughts and challenges to the assistant rather than being passive **"
    ELSE "Respond using HTML formatting in paragraph form"

\* the formatting requirements _customize_template appends, first and last lines
OUTPUT_BLOCK ==
    "**Output**:\n- HTML formatting, default to paragraphs\n\n*** REMINDER!!  ***\nRestrict your responses to "
        \o TOKENS_PER_TURN \o " tokens per turn, but decide verbosity level dynamically based on the scenario.\n"

\* template.format(**args) for named fields: the text with every {name}
\* replaced, KeyError for a name that is no argument, ValueError for a brace
\* without its partner
RECURSIVE Format(_, _)
Format(template, args) ==
    LET open == Find(template, "{")
        close == Find(template, "}")
    IN  IF open = 0 /\ close = 0
        THEN [error |-> "", text |-> template]
        ELSE IF open = 0 \/ close < open
        THEN [error |-> "ValueError", text |-> ""]
        ELSE LET name == SubSeq(template, open + 1, close - 1)
             IN  IF name \notin DOMAIN args
                 THEN [error |-> "KeyError", text |-> ""]
                 ELSE LET rest == Format(SubSeq(template, close + 1, Len(template)), args)
                      IN  IF rest.error # ""
                          THEN rest
                          ELSE [error |-> "",
                                text |-> SubSeq(template, 1, open - 1) \o args[name]
                                            \o rest.text]

\* dict.get(key, default) on a metric map of the context
Get(map, key, default) == IF key \in DOMAIN map THEN map[key] ELSE default

\* sep.join(items)
RECURSIVE Join(_, _)
Join(sep, items) ==
    IF items = << >> THEN ""
    ELSE IF Len(items) = 1 THEN items[1]
    ELSE items[1] \o sep \o Join(sep, Tail(items))

\* template_prefix of _select_template
template_prefix(mode) == IF mode = "ai-ai" THEN "ai-ai-" ELSE ""

\* required_templates of _select_template
required_templates(mode) ==
    << template_prefix(mode) \o "exploratory",
       template_prefix(mode) \o "structured",
       template_prefix(mode) \o "synthesis",
       template_prefix(mode) \o "critical" >>

\* a variant of the selection that tests the knowledge depth before the load
\* and the coherence
DepthFirstKey(context, mode) ==
    template_prefix(mode) \o
      (IF context.topic_evolution < 2 THEN "exploratory"
       ELSE IF context.knowledge_depth > 8 THEN "critical"
       ELSE IF context.cognitive_load > 8 THEN "synthesis"
       ELSE IF context.semantic_coherence < 5 THEN "structured"
       ELSE "exploratory")

\* the key _select_template reads once the required templates are there;
\* topic_evolution is the length of the list
SelectedKey(context, mode) ==
    template_prefix(mode) \o
      (IF context.topic_evolution < 2 THEN "exploratory"
       ELSE IF context.semantic_coherence < 5 THEN "structured"
       ELSE IF context.cognitive_load > 8 THEN "synthesis"
       ELSE IF context.knowledge_depth > 8 THEN "critical"
       ELSE "exploratory")

\* _select_template: the exceptions raised inside its try are no KeyError, so
\* its "except Exception" wraps them in a TemplateSelectionError
select_template(templates, context, mode) ==
    LET missing == { i \in 1..4 : required_templates(mode)[i] \notin DOMAIN templates }
    IN  IF DOMAIN templates = {}
        THEN [raise |-> "TemplateSelectionError", key |-> "", template |-> "",
              msg |-> "Error selecting template: No templates available"]
        ELSE IF missing # {}
        THEN [raise |-> "TemplateSelectionError", key |-> "", template |-> "",
              msg |-> "Error selecting template: Required template not found: "
                        \o required_templates(mode)[CHOOSE i \in missing :
                                                       \A j \in missing : i <= j]]
        ELSE [raise |-> "", msg |-> "",
              key |-> SelectedKey(context, mode),
              template |-> templates[SelectedKey(context, mode)]]

\* modifications of _customize_template, in the order they are appended
modifications(context, domain, self_mode) ==
    (IF DOMAIN context.uncertainty_markers # {}
          /\ Get(context.uncertainty_markers, "uncertainty", 0) > 6
     THEN << "Request specific clarification on unclear points" >> ELSE << >>)
    \o (IF DOMAIN context.reasoning_patterns # {}
          /\ Get(context.reasoning_patterns, "deductive", 0) < 3
        THEN << "Encourage logical reasoning and clear arguments" >> ELSE << >>)
    \o (IF self_mode = "ai-ai" /\ DOMAIN context.reasoning_patterns # {}
          /\ Get(context.reasoning_patterns, "formal_logic", 0) < 3
        THEN << "Use more formal logical structures in responses" >> ELSE << >>)
    \o (IF self_mode = "ai-ai" /\ DOMAIN context.reasoning_patterns # {}
          /\ Get(context.reasoning_patterns, "technical", 0) < 4
        THEN << "Increase use of precise technical terminology" >> ELSE << >>)
    \o (IF DOMAIN context.engagement_metrics # {}
          /\ Get(context.engagement_metrics, "turn_taking_balance", 10) < 4
        THEN << "Ask more follow-up questions to maintain engagement" >> ELSE << >>)
    \o (IF Contains(domain, "GOAL") \/ Contains(domain, "Goal") \/ Contains(domain, "goal")
        THEN << "** Focus on achieving the specified goal! " \o domain \o " **" >>
        ELSE << >>)

\* _customize_template: the instruction, or the exception it raises
customize_template(template, context, domain, role, self_mode) ==
    LET first == Format(template, [n \in { "domain" } |-> domain])
        second == Format(template,
                         [n \in { "domain", "tokens" } |->
                             IF n = "domain" THEN domain ELSE TOKENS_PER_TURN])
        mods == modifications(context, domain, self_mode)
    IN  IF self_mode = "ai-ai" \/ role = "user" \/ role = "human"
        THEN IF first.error # ""
             THEN [raise |-> "TemplateFormatError", text |-> ""]
             ELSE IF second.error # ""
             THEN [raise |-> "TemplateFormatError", text |-> ""]
             ELSE [raise |-> "",
                   text |-> Strip(
                      Strip(first.text) \o HUMAN_EXPERT_BLOCK \o Strip(second.text)
                      \o (IF mods # << >>
                          THEN "\n\nAdditional Guidelines:\n- " \o Join("\n- ", mods)
                          ELSE "")
                      \o role_specific_persona
                      \o (IF (role = "human" \/ role = "user") /\ self_mode # "default"
                          THEN "\n" \o SPECIAL_HUMAN_INSTRUCTION(self_mode, role)
                          ELSE "")
                      \o OUTPUT_BLOCK)]
        ELSE IF second.error # ""
        THEN [raise |-> "TemplateFormatError", text |-> ""]
        ELSE [raise |-> "", text |-> Strip(second.text)]

\* a variant of generate_instructions that lets a failure of the customization
\* pass to its caller
RaisesCustomizationFailure(type, domain) == [kind |-> "raise", type |-> type, text |-> ""]

\* what generate_instructions does with an exception of _customize_template:
\* the fallback is returned
OnCustomizationFailure(type, domain) ==
    [kind |-> "return", type |-> "", text |-> FallbackInstruction(domain)]

\* a variant of generate_instructions that answers invalid input with the
\* fallback of its catch-all clause
FallbackOnInvalidInput(what, type) ==
    [kind |-> "return", type |-> "", analyzed |-> FALSE, selected |-> FALSE, key |-> "",
     text |-> "You are discussing . Be helpful and think step by step."]

\* what generate_instructions does with the ValueError of its input
\* validation: "except ValueError" raises AdaptiveInstructionError
OnInvalidInput(what, type) ==
    [kind |-> "raise", type |-> "AdaptiveInstructionError",
     analyzed |-> FALSE, selected |-> FALSE, key |-> "",
     text |-> "Invalid input: " \o what \o ", got <class '" \o type \o "'>"]

\* generate_instructions of a manager whose mode is self_mode. history and
\* domain are values with their Python type; analysis is the ContextVector the
\* analyzer returns, or its failure. The mode argument is not read.
generate_instructions(self_mode, templates, analysis, history, domain, mode, role) ==
    IF history.type # "list"
    THEN OnInvalidInput("History must be a list", history.type)
    ELSE IF domain.type # "str"
    THEN OnInvalidInput("Domain must be a string", domain.type)
    ELSE IF analysis.raise # ""
    THEN [kind |-> "raise", type |-> "ContextAnalysisError",
          analyzed |-> TRUE, selected |-> FALSE, key |-> "",
          text |-> "Error analyzing conversation context: " \o analysis.raise]
    ELSE LET context == analysis.context
             sel == select_template(templates, context, self_mode)
             cust == customize_template(sel.template, context, domain.value, role,
                                        self_mode)
         IN  IF sel.raise # ""
             THEN [kind |-> "raise", type |-> "TemplateSelectionError",
                   analyzed |-> TRUE, selected |-> TRUE, key |-> "",
                   text |-> "Error selecting template: " \o sel.msg]
             ELSE IF cust.raise # ""
             THEN [analyzed |-> TRUE, selected |-> TRUE, key |-> sel.key]
                     @@ OnCustomizationFailure(cust.raise, domain.value)
             ELSE [kind |-> "return", type |-> "", analyzed |-> TRUE,
                   selected |-> TRUE, key |-> sel.key, text |-> cust.text]

(***************************************************************************)
(* Environment: what the backends and the file system can answer           *)
(***************************************************************************)
\* scripted replies of a healthy backend, one per turn of a run
ReplyScripts == { << "A", "B", "C", "D" >>, << "ok", "ok", "ok", "ok" >> }

\* messages of the exceptions client.generate_response can raise
BackendErrorMsgs ==
    { "Connection aborted",
      "connection aborted",
      "Quota exceeded",
      "Fatal connection error: Connection aborted" }

\* the keywords run_conversation_turn calls client.generate_response with
ManagerKeywords == { "prompt", "system_instruction", "history", "role", "file_data" }

\* the parameters of generate_response in the client classes
GenerateResponseKeywords(b) ==
    IF b = "mlx"
    THEN { "prompt", "system_instruction", "history", "role", "model_config" }
    ELSE { "prompt", "system_instruction", "history", "role", "mode", "model_config" }

\* the TypeError of a call with a keyword the method has no parameter for
KeywordErrors ==
    { "got an unexpected keyword argument '" \o k \o "'" :
        k \in UNION { ManagerKeywords \ GenerateResponseKeywords(b) : b \in Backends } }

ClientErrorMsgs == BackendErrorMsgs \cup KeywordErrors

\* the exception class: RuntimeError, or any other subclass of Exception
ErrTypes == { "RuntimeError", "Exception" }

\* messages of the exceptions a client constructor can raise
CtorFailures ==
    { "Invalid Gemini API key: Missing key inputs argument!",
      "Invalid Gemini API key: transport closed" }

\* the client errors run_conversation_turn takes as fatal, and the others
FatalClientErrors == { m \in ClientErrorMsgs : is_fatal(m) }

NonFatalClientErrors == { m \in ClientErrorMsgs : ~is_fatal(m) }

\* the constructor errors _get_client takes as critical
CriticalCtorFailures == { c \in CtorFailures : is_critical_error(c) }

NoErr == [msg |-> "", handled |-> "none", at |-> << 0, 0, 0 >>]

\* seconds that can pass between two requests: none, or min_delay and more
Elapsed == { 0, min_delay }

\* file_config / file_data when there is no file
NoFile == [type |-> "", path |-> ""]

\* the files a caller hands to run_conversation_with_file (single FileConfig)
FileConfigs == { [type |-> "text", path |-> "notes.txt"] }

\* file_context of run_conversation_with_file for a file without dimensions
FileContext(f) == "Analyzing " \o f.type \o " file: " \o f.path

\* initial_prompt after run_conversation_with_file has added the file context
PromptWithFile(prompt, f) == FileContext(f) \o "\n\n" \o prompt

\* the prompts and modes a caller of the manager passes
CallerPrompts ==
    { "Topic: tides\nGOAL: swim",
      "GOAL: build (a raft) now",
      "GOAL: row\nfast",
      "  compare apples \n" }

CallerModes == { "ai-ai", "human-aiai", "no-meta-prompting", "default" }

\* the human_model and ai_model a caller passes: main's two models, or a
\* name _get_client has no branch for in the place of one of them
CallerModels ==
    { << HUMAN_MODEL, AI_MODEL >>,
      << "gemini-9-ultra", AI_MODEL >>,
      << HUMAN_MODEL, "gemini-9-ultra" >> }

NoCall ==
    [prompt |-> "", history |-> << >>, role |-> "", mode |-> "", before |-> << >>,
     file_data |-> NoFile, turn |-> "", client |-> "", round |-> 0,
     argument_intact |-> TRUE, history_intact |-> TRUE, instructions |-> << >>,
     fixed_instruction |-> "", returned_type |-> "", content_type |-> ""]

NoExc == [type |-> "", msg |-> ""]

\* the four base names of InstructionTemplates
BaseTemplates == { "exploratory", "structured", "synthesis", "critical" }

\* texts a template of the registry can have: with {domain}, with {domain}
\* and {tokens}, and with a field generate_instructions has no value for
TemplateStyles == { "domain", "tokens", "audience" }

TemplateText(key, style) ==
    IF style = "domain" THEN " Explore {domain} (" \o key \o "). "
    ELSE IF style = "tokens" THEN "Explore {domain} in {tokens} tokens (" \o key \o ")."
    ELSE "Explain {domain} to {audience} (" \o key \o ")."

\* key sets of InstructionTemplates.get_templates(): all eight, the four
\* without prefix, exploratory alone, none
RegistryKeys ==
    { BaseTemplates \cup { "ai-ai-" \o b : b \in BaseTemplates },
      BaseTemplates,
      { "exploratory" },
      {} }

Registry(keys, style) == [ k \in keys |-> TemplateText(k, style) ]

Registries == { Registry(keys, style) : keys \in RegistryKeys, style \in TemplateStyles }

\* the registry of the resource bundle
FullRegistry == Registry(BaseTemplates \cup { "ai-ai-" \o b : b \in BaseTemplates }, "domain")

\* metric maps of a ContextVector
NoMetrics == << >>

ContextVectors ==
    { [topic_evolution |-> n, semantic_coherence |-> c, cognitive_load |-> l,
       knowledge_depth |-> d, uncertainty_markers |-> m.u, reasoning_patterns |-> m.r,
       engagement_metrics |-> m.e] :
        n \in { 1, 2 }, c \in { 4, 5 }, l \in { 8, 9 }, d \in { 8, 9 },
        m \in { [u |-> NoMetrics, r |-> NoMetrics, e |-> NoMetrics],
                [u |-> [k \in { "uncertainty" } |-> 7],
                 r |-> [k \in { "deductive" } |-> 2],
                 e |-> [k \in { "turn_taking_balance" } |-> 3]] } }

\* what context_analyzer.analyze(history) can do
Analyses ==
    { [raise |-> "", context |-> c] : c \in ContextVectors }
        \cup { [raise |-> "analyzer failed", context |-> << >>] }

\* values a caller can pass for history and for domain, with their type
HistoryArgs ==
    { [type |-> "list", value |-> << Msg("system", "tides") >>],
      [type |-> "NoneType", value |-> << >>] }

DomainArgs ==
    { [type |-> "str", value |-> "GOAL: swim"],
      [type |-> "str", value |-> "tides"],
      [type |-> "NoneType", value |-> ""] }

NoResult ==
    [kind |-> "", type |-> "", analyzed |-> FALSE, selected |-> FALSE, key |-> "",
     text |-> ""]

NoInstr ==
    [phase |-> "none", self_mode |-> "", templates |-> << >>,
     analysis |-> [raise |-> "", context |-> << >>],
     history |-> [type |-> "list", value |-> << >>],
     domain |-> [type |-> "str", value |-> ""],
     mode |-> "", role |-> "", result |-> NoResult]

EmptyMap == [n \in {} |-> ""]

Min(a, b) == IF a <= b THEN a ELSE b

(***************************************************************************)
(* State                                                                   *)
(***************************************************************************)
VARIABLES
    pc,                    \* position of main
    google_api_key,        \* GOOGLE_API_KEY is set in the environment
    initial_prompt,        \* main's initial_prompt
    script,                \* replies of the backend when it is healthy
    modeIx,                \* index in Modes of the sub-run in progress
    mode,                  \* the mode argument of the run
    rounds,                \* the rounds argument of the run
    file_config,           \* the file_config argument, NoFile for run_conversation
    human_model,           \* the human_model argument of the run
    ai_model,              \* the ai_model argument of the run
    retry_count,           \* main's retry_count of the sub-run
    conversation,          \* conversation, conversation_as_human_ai, conv_default
    outcome,               \* how each of the three came about
    attempts,              \* run_conversation invocations, per sub-run
    sleeps,                \* time.sleep(wait_time) calls of main, per sub-run
    saved,                 \* save_conversation calls, in order
    arbiter_args,          \* arguments of evaluate_conversations, once called
    exc,                   \* the last exception that left run_conversation
    mgr_mode,              \* manager.mode
    conversation_history,  \* manager.conversation_history
    initialized_clients,   \* manager._initialized_clients
    model_map,             \* manager.model_map: model name -> client (its mode)
    last_request_time,     \* manager.last_request_time
    round_index,           \* loop variable of _run_conversation_with_file_data
    turn,                  \* role of the next turn of the round
    human_response,        \* local of _run_conversation_with_file_data
    ai_response,           \* local of _run_conversation_with_file_data
    file_data,             \* file_data of _run_conversation_with_file_data
    lastCall,              \* arguments of the last client.generate_response, and
                           \* conversation_history as it was at the call
    lastErr,               \* last exception run_conversation_turn handled
    reports,               \* fatal_error_*.html files written
    since_request,         \* seconds since the last outbound request (saturating)
    request_gap,           \* seconds between the last two outbound requests
    requests,              \* outbound requests of the current run
    faults,                \* failures injected so far
    gi                     \* a generate_instructions call: its manager, its
                           \* arguments, the registry and the analyzer it
                           \* meets, and what it returned or raised

vars ==
    << pc, google_api_key, initial_prompt, script, modeIx, mode, rounds, file_config,
       human_model, ai_model, retry_count, conversation, outcome, attempts, sleeps, saved, arbiter_args, exc,
       mgr_mode, conversation_history, initialized_clients, model_map,
       last_request_time, round_index, turn, human_response, ai_response, file_data,
       lastCall, lastErr, reports, since_request, request_gap, requests, faults,
       gi >>

\* the arguments of a run
argVars ==
    << google_api_key, initial_prompt, script, mode, rounds, file_config, human_model,
       ai_model, gi >>

mainVars ==
    << argVars, modeIx, retry_count, conversation, outcome, attempts, sleeps, saved,
       arbiter_args >>

turnVars == << round_index, turn, human_response, ai_response, file_data >>

traceVars == << lastCall, lastErr, reports, since_request, request_gap, requests >>

\* ConversationManager.__init__, and the counters of the run driver
InitManager ==
    /\ modeIx = 1
    /\ retry_count = 0
    /\ conversation = << << >>, << >>, << >> >>
    /\ outcome = << "none", "none", "none" >>
    /\ attempts = << 0, 0, 0 >>
    /\ sleeps = << << >>, << >>, << >> >>
    /\ saved = << >>
    /\ arbiter_args = << >>
    /\ exc = NoExc
    /\ mgr_mode = ""
    /\ conversation_history = << >>
    /\ initialized_clients = {}
    /\ model_map = EmptyMap
    /\ last_request_time = 0
    /\ round_index = 0
    /\ turn = "user"
    /\ human_response = ""
    /\ ai_response = ""
    /\ lastCall = NoCall
    /\ lastErr = NoErr
    /\ reports = 0
    /\ since_request = min_delay
    /\ request_gap = min_delay
    /\ requests = 0
    /\ faults = 0
    /\ file_data = NoFile

\* the manager and the locals of main before the first run
Init ==
    /\ pc = "main"
    /\ google_api_key \in BOOLEAN
    /\ initial_prompt = MAIN_PROMPT
    /\ script \in ReplyScripts
    /\ mode = Modes[1]
    /\ rounds = DEFAULT_ROUNDS
    /\ file_config = NoFile
    /\ human_model = HUMAN_MODEL
    /\ ai_model = AI_MODEL
    /\ gi = NoInstr
    /\ InitManager

\* a fresh manager and the arguments of a caller's run_conversation or
\* run_conversation_with_file
InitCaller ==
    /\ pc = "idle"
    /\ google_api_key = TRUE
    /\ initial_prompt \in CallerPrompts
    /\ script = << "A", "B", "C", "D" >>
    /\ mode \in CallerModes
    /\ rounds \in 0..MaxRounds
    /\ file_config \in { NoFile } \cup FileConfigs
    /\ \E models \in CallerModels :
         /\ human_model = models[1]
         /\ ai_model = models[2]
    /\ gi = NoInstr
    /\ InitManager

(***************************************************************************)
(* ConversationManager operations                                          *)
(***************************************************************************)
\* cleanup_unused_clients: both the set and the map end up empty
cleanup_initialized(init, map) == { n \in init : n \notin DOMAIN map }

\* a variant of cleanup_unused_clients that leaves the map as it is
CleanupKeepsMap(init, map) == map

cleanup_map(init, map) == [ n \in (DOMAIN map) \ init |-> map[n] ]

\* a variant of _get_client that constructs a client at every call
ConstructsAtEveryCall(init, map, model_name, m, ctor) ==
    IF model_name \notin KnownModels
    THEN [init |-> init, map |-> map, error |-> "", result |-> "none"]
    ELSE IF ctor = "ok"
    THEN [init |-> init \cup {model_name},
          map |-> [ n \in (DOMAIN map) \cup {model_name} |->
                      IF n = model_name THEN m ELSE map[n] ],
          error |-> "", result |-> "client"]
    ELSE IF ctor \in CriticalCtorFailures
    THEN [init |-> init, map |-> map, result |-> "raise",
          error |-> "Missing required API key for " \o model_name \o ": " \o ctor]
    ELSE [init |-> init, map |-> map, error |-> "", result |-> "none"]

\* a variant of _get_client that marks a name it has no branch for as
\* initialized
MarksUnknownInitialized(init, map, model_name, m, ctor) ==
    IF model_name \in init
    THEN [init |-> init, map |-> map, error |-> "",
          result |-> IF model_name \in DOMAIN map THEN "client" ELSE "none"]
    ELSE IF model_name \notin KnownModels
    THEN [init |-> init \cup {model_name}, map |-> map, error |-> "", result |-> "none"]
    ELSE IF ctor = "ok"
    THEN [init |-> init \cup {model_name},
          map |-> [ n \in (DOMAIN map) \cup {model_name} |->
                      IF n = model_name THEN m ELSE map[n] ],
          error |-> "", result |-> "client"]
    ELSE IF ctor \in CriticalCtorFailures
    THEN [init |-> init, map |-> map, result |-> "raise",
          error |-> "Missing required API key for " \o model_name \o ": " \o ctor]
    ELSE [init |-> init, map |-> map, error |-> "", result |-> "none"]

\* _get_client(model_name) on a manager whose mode is m; ctor is what the
\* client constructor does when it runs: "ok", or the message it raises
get_client(init, map, model_name, m, ctor) ==
    IF model_name \in init
    THEN [init |-> init, map |-> map, error |-> "",
          result |-> IF model_name \in DOMAIN map THEN "client" ELSE "none"]
    ELSE IF model_name \notin KnownModels
    THEN [init |-> init, map |-> map, error |-> "", result |-> "none"]
    ELSE IF ctor = "ok"
    THEN [init |-> init \cup {model_name},
          map |-> [ n \in (DOMAIN map) \cup {model_name} |->
                      IF n = model_name THEN m ELSE map[n] ],
          error |-> "", result |-> "client"]
    ELSE IF ctor \in CriticalCtorFailures
    THEN [init |-> init, map |-> map, result |-> "raise",
          error |-> "Missing required API key for " \o model_name \o ": " \o ctor]
    ELSE [init |-> init, map |-> map, error |-> "", result |-> "none"]

\* what the constructor of a client can do when _get_client has to run it
CtorOutcomes(init, model_name) ==
    IF model_name \in init \/ model_name \notin KnownModels THEN { "ok" }
    ELSE IF faults < MaxFaults THEN { "ok" } \cup CtorFailures
    ELSE { "ok" }

CtorFaults(ctor) == IF ctor = "ok" THEN 0 ELSE 1

\* error_message of the fatal branch of run_conversation_turn
FatalErrorMessage(model_type, error_str) ==
    "ERROR: A fatal connection error occurred with " \o model_type \o ": " \o error_str

\* error_message of the non-fatal branch of run_conversation_turn
NonFatalErrorMessage(model_type, role, error_str) ==
    "Error with " \o model_type \o " (" \o mapped_role(role) \o "): " \o error_str

\* a variant of the non-fatal branch that returns no text
EmptyResponse(error_str) == ""

\* response of the non-fatal branch of run_conversation_turn
NonFatalResponse(error_str) == "Error: " \o error_str

\* model_type of the turn
TurnModel(role) == IF role = "user" THEN human_model ELSE ai_model

\* a variant of the loop that hands the AI model's client to both turns
AiClientOnly(role) == ai_model

\* client of the turn: human_client for the human turn, ai_client for the AI turn
TurnClient(role) == IF role = "user" THEN human_model ELSE ai_model

\* a variant of the loop that prompts each side with its own last response
OwnLastResponse(role) == IF role = "user" THEN human_response ELSE ai_response

\* prompt of the turn: ai_response for the human turn, human_response for the AI turn
TurnPrompt(role) == IF role = "user" THEN ai_response ELSE human_response

\* the reply of a healthy backend at this turn
Reply ==
    script[((2 * round_index + (IF turn = "user" THEN 0 ELSE 1)) % Len(script)) + 1]

\* the exception run_conversation_turn lets escape in the fatal branch: the
\* RuntimeError it raises inside the inner try is caught by
\* "except Exception as report_e", which re-raises the client's exception
EscapingException(type, error_str, model_type) == [type |-> type, msg |-> error_str]

\* the prefix of a template key
KeyPrefix(key) == IF StartsWith(key, "ai-ai-") THEN "ai-ai-" ELSE ""

\* a context the analyzer returns during a conversation; the prefix of the
\* selected key does not depend on which one it is
TurnContext == CHOOSE c \in ContextVectors : TRUE

\* the clients whose adaptive_manager.generate_instructions the manager calls
\* for a turn: in the loop (pc = "turn") human_client's for the
\* system_instruction argument of the human turn unless the mode is
\* no-meta-prompting, then the turn's client's inside run_conversation_turn
\* unless prompt_level is no-meta-prompting
InstructionClients(m, role) ==
    (IF pc = "turn" /\ role = "user" /\ m # "no-meta-prompting"
     THEN << human_model >> ELSE << >>)
    \o (IF prompt_level(m, role) # "no-meta-prompting"
        THEN << TurnClient(role) >> ELSE << >>)

\* the prefix of the key a manager constructed with self_mode selects from
\* the registry of the resource bundle
SelectedPrefix(self_mode) ==
    KeyPrefix(select_template(FullRegistry, TurnContext, self_mode).key)

\* self.domain of the manager after the entry of run_conversation and of
\* run_conversation_with_file: "self.domain = initial_prompt"
self_domain(prompt) == prompt

\* the generate_instructions calls of a turn: the mode argument, the mode
\* of the AdaptiveInstructionManager that serves the call (the mode its
\* client was constructed with), which is the mode it selects the template by,
\* and the domain argument
InstructionCalls(m, role, map) ==
    [ i \in DOMAIN InstructionClients(m, role) |->
        LET client == InstructionClients(m, role)[i]
        IN  [client |-> client, mode |-> m, self_mode |-> map[client],
             domain |-> self_domain(initial_prompt)] ]

\* a variant in which every turn puts the instruction message on the history
\* before it calls the client
InstructionMessageEveryTurn ==
    Append(conversation_history, Msg("system", "None!"))

\* conversation_history when the branches of run_conversation_turn are
\* entered: an empty history has got the message f"{system_instruction}!",
\* which for a call without system_instruction is "None!"
HistoryAtCall ==
    IF conversation_history = << >> THEN << Msg("system", "None!") >>
    ELSE conversation_history

\* what the list passed to the client can hold when the call is over, over
\* the client classes
ReturnedArguments ==
    { ClientHistory(b, HistoryForClient(HistoryAtCall, mode, turn),
                    TurnPrompt(turn), "").argument : b \in Backends }

\* a variant in which the turn works on the history as it was before the
\* message of the turn before it was appended
LostPreviousAppend(returned) ==
    IF Len(conversation_history) > 1
    THEN SubSeq(conversation_history, 1, Len(conversation_history) - 1)
    ELSE conversation_history

\* conversation_history when the call is over: what the passed list holds if
\* the live list was passed, else what it held before
LiveAfterCall(returned) ==
    IF PassedList(mode, turn) = "live" THEN returned ELSE HistoryAtCall

\* values of generate_response: a str (GeminiClient returns
\* str(response.text)), or the list response.content of ClaudeClient, whose
\* elements are blocks with the attribute text or without it
TextResponse(text) == [type |-> "str", text |-> text, items |-> << >>]

ListResponse(items) == [type |-> "list", text |-> "", items |-> items]

NoResponse == [type |-> "", text |-> "", items |-> << >>]

BackendResponses(text) ==
    { TextResponse(text),
      ListResponse(<< [has_text |-> TRUE, text |-> text, str |-> "TextBlock" ] >>),
      ListResponse(<< [has_text |-> TRUE, text |-> text, str |-> "TextBlock" ],
                      [has_text |-> TRUE, text |-> "more", str |-> "TextBlock" ] >>),
      ListResponse(<< [has_text |-> FALSE, text |-> "", str |-> text ] >>),
      ListResponse(<< >>) }

\* the values the client of the turn can return for the scripted reply: the
\* list values are drawn for the turns a caller makes one by one, the rounds
\* of a run are answered with text
Responses ==
    IF pc = "called" THEN BackendResponses(Reply) ELSE { TextResponse(Reply) }

\* what run_conversation_turn makes of the returned value before it appends
\* it: element 0's text (or str(element 0)) of a list that is not empty, any
\* other value as it is
normalize_response(response) ==
    IF response.type = "list" /\ Len(response.items) > 0
    THEN TextResponse(IF response.items[1].has_text THEN response.items[1].text
                      ELSE response.items[1].str)
    ELSE response

\* the content of the appended message as the model writes it: the text of a
\* str, the repr of any other value; its Python type is kept in lastCall
ContentOf(value) == IF value.type = "str" THEN value.text ELSE "[]"

\* the client call of a turn is made and leaves the list it was passed as
\* returned: its arguments, its time, whether it left the passed list and
\* conversation_history as they were, the type of the value it returned
\* (none when it raised) and the type of the content the turn then appends
ClientCalled(dt, returned, response) ==
    /\ lastCall' = [prompt |-> TurnPrompt(turn),
                    history |-> HistoryForClient(HistoryAtCall, mode, turn),
                    role |-> RoleForClient(mode, turn),
                    mode |-> mode,
                    before |-> HistoryAtCall,
                    file_data |-> file_data,
                    turn |-> turn,
                    client |-> TurnClient(turn),
                    round |-> round_index,
                    instructions |-> InstructionCalls(mode, turn, model_map),
                    fixed_instruction |-> FixedInstruction(mode, turn),
                    argument_intact |->
                        returned = HistoryForClient(HistoryAtCall, mode, turn),
                    history_intact |-> LiveAfterCall(returned) = HistoryAtCall,
                    returned_type |-> response.type,
                    content_type |-> IF response = NoResponse THEN "str"
                                     ELSE normalize_response(response).type]
    /\ request_gap' = Min(since_request + dt, min_delay)
    /\ since_request' = 0
    /\ requests' = requests + 1
    /\ UNCHANGED last_request_time

\* the loop of _run_conversation_with_file_data after a turn that returned
\* response and left the history h: next turn, or return h and clean up
LoopAdvance(response, h) ==
    /\ conversation_history' = h
    /\ IF turn = "user"
       THEN /\ human_response' = response
            /\ turn' = "assistant"
            /\ UNCHANGED << ai_response, round_index, pc, conversation, outcome,
                            initialized_clients, model_map >>
       ELSE /\ ai_response' = response
            /\ turn' = "user"
            /\ UNCHANGED human_response
            /\ IF round_index + 1 < rounds
               THEN /\ round_index' = round_index + 1
                    /\ UNCHANGED << pc, conversation, outcome, initialized_clients,
                                    model_map >>
               ELSE /\ round_index' = round_index
                    /\ pc' = "after"
                    /\ conversation' = [conversation EXCEPT ![modeIx] = h]
                    /\ outcome' = [outcome EXCEPT ![modeIx] = "returned"]
                    /\ initialized_clients' = cleanup_initialized(initialized_clients, model_map)
                    /\ model_map' = cleanup_map(initialized_clients, model_map)

(***************************************************************************)
(* Actions                                                                 *)
(***************************************************************************)
\* a variant in which the entry empties the list in place and goes on with it
ClearedInPlace(returned, core_topic) == << Msg("system", core_topic) >>

\* what a list returned by an earlier run holds after the entry of a run:
\* "self.conversation_history = []" binds the name to a new list, the list
\* the caller holds is left as it is
ReturnedListAfterEntry(returned, core_topic) == returned

\* the common part of run_conversation and run_conversation_with_file once the
\* prompt is settled: topic extraction, message 0, _get_client for both models
\* (an unset client returns []), and the entry of the loop; with rounds = 0 the
\* loop body never runs and the history is returned through the finally.
\* run_conversation asks for both clients itself and then once more in
\* _run_conversation_with_file_data (h2, a2), where both are initialized.
\* A history returned before that is still the manager's list is held by
\* the caller through the entry (kept)
StartRun(prompt, fd) ==
    \E ctorH \in CtorOutcomes(initialized_clients, human_model) :
    \E ctorA \in CtorOutcomes(initialized_clients, ai_model) :
      LET core_topic == ExtractCoreTopic(prompt)
          h == get_client(initialized_clients, model_map, human_model, mode, ctorH)
          a == get_client(h.init, h.map, ai_model, mode, ctorA)
          h2 == IF fd = NoFile THEN get_client(a.init, a.map, human_model, mode, "ok") ELSE a
          a2 == IF fd = NoFile THEN get_client(h2.init, h2.map, ai_model, mode, "ok") ELSE a
          kept == [ix \in DOMAIN conversation |->
                     IF outcome[ix] = "returned" /\ conversation[ix] = conversation_history
                     THEN ReturnedListAfterEntry(conversation[ix], core_topic)
                     ELSE conversation[ix]]
      IN  /\ faults + CtorFaults(ctorH) + CtorFaults(ctorA) <= MaxFaults
          /\ h.result = "raise" => ctorA = "ok"
          /\ attempts' = [attempts EXCEPT ![modeIx] = @ + 1]
          /\ mgr_mode' = mode
          /\ conversation_history' = << Msg("system", core_topic) >>
          /\ requests' = 0
          /\ file_data' = fd
          /\ IF h.result = "raise"
             THEN /\ exc' = [type |-> "RuntimeError", msg |-> h.error]
                  /\ pc' = "except"
                  /\ initialized_clients' = h.init
                  /\ model_map' = h.map
                  /\ faults' = faults + CtorFaults(ctorH)
                  /\ conversation' = kept
                  /\ UNCHANGED << outcome, round_index, turn,
                                  human_response, ai_response >>
             ELSE /\ faults' = faults + CtorFaults(ctorH) + CtorFaults(ctorA)
                  /\ IF a.result = "raise"
                     THEN /\ exc' = [type |-> "RuntimeError", msg |-> a.error]
                          /\ pc' = "except"
                          /\ initialized_clients' = a.init
                          /\ model_map' = a.map
                          /\ conversation' = kept
                          /\ UNCHANGED << outcome, round_index, turn,
                                          human_response, ai_response >>
                     ELSE IF h.result = "none" \/ a.result = "none"
                     THEN /\ conversation' = [kept EXCEPT ![modeIx] = << >>]
                          /\ outcome' = [outcome EXCEPT ![modeIx] = "empty"]
                          /\ pc' = "after"
                          /\ initialized_clients' = a.init
                          /\ model_map' = a.map
                          /\ UNCHANGED << exc, round_index, turn, human_response,
                                          ai_response >>
                     ELSE /\ round_index' = 0
                          /\ turn' = "user"
                          /\ ai_response' = core_topic
                          /\ human_response' = ""
                          /\ UNCHANGED exc
                          /\ IF rounds > 0
                             THEN /\ pc' = "turn"
                                  /\ initialized_clients' = a2.init
                                  /\ model_map' = a2.map
                                  /\ conversation' = kept
                                  /\ UNCHANGED outcome
                             ELSE /\ pc' = "after"
                                  /\ conversation' =
                                       [kept EXCEPT
                                          ![modeIx] = << Msg("system", core_topic) >>]
                                  /\ outcome' = [outcome EXCEPT ![modeIx] = "returned"]
                                  /\ initialized_clients' = cleanup_initialized(a2.init, a2.map)
                                  /\ model_map' = cleanup_map(a2.init, a2.map)

\* main, up to the first run: the API-key check returns when the key is unset
MainStart ==
    /\ pc = "main"
    /\ pc' = IF google_api_key THEN "call" ELSE "done"
    /\ UNCHANGED << mainVars, exc, mgr_mode, conversation_history, initialized_clients,
                    model_map, last_request_time, turnVars, traceVars, faults >>

\* manager.run_conversation(...) of main, up to the first turn of the loop
RunConversation ==
    /\ pc = "call"
    /\ StartRun(initial_prompt, NoFile)
    /\ UNCHANGED << argVars, modeIx, retry_count, sleeps, saved, arbiter_args,
                    last_request_time, lastCall, lastErr, reports, since_request,
                    request_gap >>

\* a caller's manager.run_conversation(...), up to the first turn of the loop
CallRunConversation ==
    /\ pc = "idle"
    /\ file_config = NoFile
    /\ StartRun(initial_prompt, NoFile)
    /\ UNCHANGED << argVars, modeIx, retry_count, sleeps, saved, arbiter_args,
                    last_request_time, lastCall, lastErr, reports, since_request,
                    request_gap >>

\* a caller's manager.run_conversation_with_file(...) with a single FileConfig:
\* media_handler.process_file raises and [] is returned, or the file context is
\* put in front of the prompt and the run goes on with the file's data
CallRunConversationWithFile ==
    /\ pc = "idle"
    /\ file_config # NoFile
    /\ \E processed \in BOOLEAN :
         IF processed
         THEN StartRun(PromptWithFile(initial_prompt, file_config), file_config)
         ELSE /\ faults < MaxFaults
              /\ faults' = faults + 1
              /\ attempts' = [attempts EXCEPT ![modeIx] = @ + 1]
              /\ mgr_mode' = mode
              /\ conversation_history' = << >>
              /\ conversation' = [conversation EXCEPT ![modeIx] = << >>]
              /\ outcome' = [outcome EXCEPT ![modeIx] = "empty"]
              /\ pc' = "after"
              /\ UNCHANGED << exc, initialized_clients, model_map, requests, turnVars >>
    /\ UNCHANGED << argVars, modeIx, retry_count, sleeps, saved, arbiter_args,
                    last_request_time, lastCall, lastErr, reports, since_request,
                    request_gap >>

\* the caller has the result, or the exception, of its call
CallerDone ==
    /\ pc \in { "after", "except" }
    /\ pc' = "done"
    /\ UNCHANGED << mainVars, exc, mgr_mode, conversation_history, initialized_clients,
                    model_map, last_request_time, turnVars, traceVars, faults >>

\* run_conversation_turn when the client returns a reply
TurnOk ==
    /\ pc = "turn"
    /\ \E dt \in Elapsed, returned \in ReturnedArguments, response \in Responses :
         /\ ClientCalled(dt, returned, response)
         /\ LoopAdvance(ContentOf(normalize_response(response)),
                        Append(LiveAfterCall(returned),
                               Msg(AppendedRole(mode, turn),
                                   ContentOf(normalize_response(response)))))
    /\ UNCHANGED << argVars, modeIx, retry_count, attempts, sleeps, saved, arbiter_args,
                    exc, mgr_mode, file_data, lastErr, reports, faults >>

\* run_conversation_turn when the client raises and no fatal signal matches
TurnNonFatal ==
    /\ pc = "turn"
    /\ faults < MaxFaults
    /\ \E dt \in Elapsed, returned \in ReturnedArguments,
          type \in ErrTypes, error_str \in NonFatalClientErrors :
         /\ ClientCalled(dt, returned, NoResponse)
         /\ lastErr' = [msg |-> error_str, handled |-> "non-fatal",
                         at |-> << modeIx, attempts[modeIx], requests + 1 >>]
         /\ LoopAdvance(NonFatalResponse(error_str),
                        Append(LiveAfterCall(returned),
                               Msg("system",
                                   NonFatalErrorMessage(TurnModel(turn), turn, error_str))))
    /\ faults' = faults + 1
    /\ UNCHANGED << argVars, modeIx, retry_count, attempts, sleeps, saved, arbiter_args,
                    exc, mgr_mode, file_data, reports >>

\* run_conversation_turn when the client raises and a fatal signal matches; the
\* exception leaves run_conversation through the finally of the loop (cleanup)
TurnFatal ==
    /\ pc = "turn"
    /\ faults < MaxFaults
    /\ \E dt \in Elapsed, returned \in ReturnedArguments,
          type \in ErrTypes, error_str \in FatalClientErrors, report_ok \in BOOLEAN :
         /\ ClientCalled(dt, returned, NoResponse)
         /\ ~report_ok => faults + 2 <= MaxFaults
         /\ faults' = faults + (IF report_ok THEN 1 ELSE 2)
         /\ lastErr' = [msg |-> error_str, handled |-> "fatal",
                         at |-> << modeIx, attempts[modeIx], requests + 1 >>]
         /\ IF report_ok
            THEN /\ reports' = reports + 1
                 /\ conversation_history' =
                        Append(LiveAfterCall(returned),
                               Msg("system", FatalErrorMessage(TurnModel(turn), error_str)))
            ELSE /\ conversation_history' = LiveAfterCall(returned)
                 /\ UNCHANGED reports
         /\ exc' = EscapingException(type, error_str, TurnModel(turn))
    /\ pc' = "except"
    /\ initialized_clients' = cleanup_initialized(initialized_clients, model_map)
    /\ model_map' = cleanup_map(initialized_clients, model_map)
    /\ UNCHANGED << mainVars, mgr_mode, turnVars >>

\* the suffix main gives the degraded history of each sub-run
DegradedSuffix(ix) ==
    IF ix = 1 THEN " - Conversation could not be completed."
    ELSE IF ix = 2 THEN " - Human-AI conversation could not be completed."
    ELSE " - Default conversation could not be completed."

\* the history main synthesizes in the else branch of its except clause
Degraded(ix, prompt, error_str) ==
    << Msg("system", prompt),
       Msg("system", "ERROR: " \o error_str \o DegradedSuffix(ix)) >>

\* the history main substitutes for an empty (or missing) conversation
FailedText(ix) ==
    IF ix = 1 THEN "ERROR: Failed to generate conversation after multiple attempts."
    ELSE IF ix = 2
    THEN "ERROR: Failed to generate human-AI conversation after multiple attempts."
    ELSE "ERROR: Failed to generate default conversation after multiple attempts."

\* a variant of main that passes an empty conversation on as it is
LeftEmpty(ix, prompt) == << >>

Failed(ix, prompt) == << Msg("system", prompt), Msg("system", FailedText(ix)) >>

\* a variant of the test that does not look at retry_count
RetriesWithoutLimit(error_str, count) == Contains(error_str, "Fatal connection error")

\* the test of main's except clause for another attempt
ShouldRetry(error_str, count) ==
    Contains(error_str, "Fatal connection error") /\ count < max_retries

\* wait_time of main's except clause, from the incremented retry_count
WaitTime(count) == count * BackoffStep

\* the mode argument of save_conversation for each sub-run
SaveMode(ix) == IF ix = 1 THEN "ai-ai" ELSE "human-ai"

\* an exception that is no RuntimeError passes main's except clause and ends
\* the process through main's finally (cleanup)
MainPropagate ==
    /\ pc = "except"
    /\ exc.type # "RuntimeError"
    /\ pc' = "crashed"
    /\ initialized_clients' = cleanup_initialized(initialized_clients, model_map)
    /\ model_map' = cleanup_map(initialized_clients, model_map)
    /\ UNCHANGED << mainVars, exc, mgr_mode, conversation_history, last_request_time,
                    turnVars, traceVars, faults >>

\* except RuntimeError, retry branch: count, sleep, call run_conversation again
MainRetry ==
    /\ pc = "except"
    /\ exc.type = "RuntimeError"
    /\ ShouldRetry(exc.msg, retry_count)
    /\ retry_count' = retry_count + 1
    /\ sleeps' = [sleeps EXCEPT ![modeIx] = Append(@, WaitTime(retry_count + 1))]
    /\ since_request' = Min(since_request + WaitTime(retry_count + 1), min_delay)
    /\ pc' = "call"
    /\ UNCHANGED << argVars, modeIx, conversation, outcome,
                    attempts, saved, arbiter_args, exc, mgr_mode, conversation_history,
                    initialized_clients, model_map, last_request_time, turnVars,
                    lastCall, lastErr, reports, request_gap, requests, faults >>

\* except RuntimeError, else branch: the degraded history, and leave the loop
MainDegrade ==
    /\ pc = "except"
    /\ exc.type = "RuntimeError"
    /\ ~ShouldRetry(exc.msg, retry_count)
    /\ conversation' = [conversation EXCEPT
                           ![modeIx] = Degraded(modeIx, initial_prompt, exc.msg)]
    /\ outcome' = [outcome EXCEPT ![modeIx] = "degraded"]
    /\ pc' = "after"
    /\ UNCHANGED << argVars, modeIx, retry_count, attempts,
                    sleeps, saved, arbiter_args, exc, mgr_mode, conversation_history,
                    initialized_clients, model_map, last_request_time, turnVars,
                    traceVars, faults >>

\* after the retry loop: the fallback for an empty conversation, save_conversation,
\* and on to the next sub-run or to the arbiter
MainSave ==
    /\ pc = "after"
    /\ LET c == IF conversation[modeIx] = << >>
                THEN Failed(modeIx, initial_prompt)
                ELSE conversation[modeIx]
       IN  /\ conversation' = [conversation EXCEPT ![modeIx] = c]
           /\ saved' = Append(saved, [mode |-> SaveMode(modeIx), conversation |-> c])
    /\ IF modeIx < Len(Modes)
       THEN /\ modeIx' = modeIx + 1
            /\ mode' = Modes[modeIx + 1]
            /\ retry_count' = 0
            /\ pc' = "call"
       ELSE /\ pc' = "arbiter"
            /\ UNCHANGED << modeIx, mode, retry_count >>
    /\ UNCHANGED << google_api_key, initial_prompt, script, rounds, file_config,
                    human_model, ai_model, gi, outcome,
                    attempts, sleeps, arbiter_args, exc, mgr_mode, conversation_history,
                    initialized_clients, model_map, last_request_time, turnVars,
                    traceVars, faults >>

\* evaluate_conversations(...), the reports, and main's finally (cleanup)
MainArbiter ==
    /\ pc = "arbiter"
    /\ arbiter_args' = << [ai_ai_convo |-> conversation[1],
                           human_ai_convo |-> conversation[2],
                           default_convo |-> conversation[3],
                           goal |-> initial_prompt] >>
    /\ pc' = "done"
    /\ initialized_clients' = cleanup_initialized(initialized_clients, model_map)
    /\ model_map' = cleanup_map(initialized_clients, model_map)
    /\ UNCHANGED << argVars, modeIx, retry_count,
                    conversation, outcome, attempts, sleeps, saved, exc, mgr_mode,
                    conversation_history, last_request_time, turnVars, traceVars, faults >>

Next ==
    \/ MainStart
    \/ RunConversation
    \/ TurnOk
    \/ TurnNonFatal
    \/ TurnFatal
    \/ MainPropagate
    \/ MainRetry
    \/ MainDegrade
    \/ MainSave
    \/ MainArbiter

Spec == Init /\ [][Next]_vars

\* main with the backends answering by one script of replies
InitMain ==
    /\ Init
    /\ script = << "A", "B", "C", "D" >>

SpecMain == InitMain /\ [][Next]_vars

\* one call of run_conversation or run_conversation_with_file by a caller
NextCaller ==
    \/ CallRunConversation
    \/ CallRunConversationWithFile
    \/ TurnOk
    \/ TurnNonFatal
    \/ TurnFatal
    \/ CallerDone

SpecCaller == InitCaller /\ [][NextCaller]_vars

(***************************************************************************)
(* The client cache under the calls of a caller, in any order              *)
(***************************************************************************)
\* runs a caller makes on one manager
MaxRuns == 2

\* the names a caller asks _get_client for
CacheNames == { HUMAN_MODEL, AI_MODEL, "ollama", "gemini-9-ultra" }

\* config.models of a configuration file: model_id and model_config.type
Configs ==
    { << << "human", HUMAN_MODEL >>, << "ai", AI_MODEL >> >>,
      << << "human", "gemini-9-ultra" >>, << "ollama", "ollama" >> >> }

\* the loop of from_config over config.models on the manager it has built
\* with mode "human-ai": _get_client(model_config.type), and for a client
\* that was returned the entry of model_id in the map and in the set; ctors
\* is what the constructors do, raise is the RuntimeError of a critical one
RECURSIVE from_config_models(_, _, _, _)
from_config_models(init, map, models, ctors) ==
    IF models = << >>
    THEN [init |-> init, map |-> map, raise |-> FALSE]
    ELSE LET model_id == models[1][1]
             c == get_client(init, map, models[1][2], "human-ai", ctors[1])
         IN  IF c.result = "raise"
             THEN [init |-> c.init, map |-> c.map, raise |-> TRUE]
             ELSE IF c.result = "client"
             THEN from_config_models(
                      c.init \cup { model_id },
                      [ n \in (DOMAIN c.map) \cup { model_id } |->
                          IF n = model_id THEN c.map[models[1][2]] ELSE c.map[n] ],
                      Tail(models), Tail(ctors))
             ELSE from_config_models(c.init, c.map, Tail(models), Tail(ctors))

\* one manager, fresh, and the arguments the caller will run it with
InitCache ==
    /\ InitCaller
    /\ initial_prompt = "GOAL: row\nfast"
    /\ rounds = 1
    /\ mode = "ai-ai"
    /\ file_config = NoFile
    /\ human_model = HUMAN_MODEL

\* the caller calls manager._get_client(model_name); a manager no run has
\* set the mode of has the mode None of its constructor
CallGetClient ==
    /\ pc \in { "idle", "done" }
    /\ \E model_name \in CacheNames :
       \E ctor \in CtorOutcomes(initialized_clients, model_name) :
         LET c == get_client(initialized_clients, model_map, model_name,
                             IF mgr_mode = "" THEN "None" ELSE mgr_mode, ctor)
         IN  /\ initialized_clients' = c.init
             /\ model_map' = c.map
             /\ faults' = faults + CtorFaults(ctor)
    /\ UNCHANGED << pc, mainVars, exc, mgr_mode, conversation_history,
                    last_request_time, turnVars, traceVars >>

\* the caller calls manager.cleanup_unused_clients()
CallCleanup ==
    /\ pc \in { "idle", "done" }
    /\ initialized_clients' = cleanup_initialized(initialized_clients, model_map)
    /\ model_map' = cleanup_map(initialized_clients, model_map)
    /\ UNCHANGED << pc, mainVars, exc, mgr_mode, conversation_history,
                    last_request_time, turnVars, traceVars, faults >>

\* the caller replaces its manager by ConversationManager.from_config(path);
\* when a constructor fails critically the call raises and the caller keeps
\* the manager it has
CallFromConfig ==
    /\ pc \in { "idle", "done" }
    /\ \E models \in Configs :
       \E ctors \in [ DOMAIN models -> { "ok" } \cup CtorFailures ] :
         LET failures == Cardinality({ i \in DOMAIN ctors : ctors[i] # "ok" })
             m == from_config_models({}, << >>, models, ctors)
         IN  /\ faults + failures <= MaxFaults
             /\ faults' = faults + failures
             /\ IF m.raise
                THEN UNCHANGED << initialized_clients, model_map, mgr_mode,
                                  conversation_history >>
                ELSE /\ initialized_clients' = m.init
                     /\ model_map' = m.map
                     /\ mgr_mode' = "human-ai"
                     /\ conversation_history' = << >>
    /\ UNCHANGED << pc, mainVars, exc, last_request_time, turnVars, traceVars >>

\* the caller, with the result of a run, sets out for another run
CallAgain ==
    /\ pc = "done"
    /\ attempts[modeIx] < MaxRuns
    /\ pc' = "idle"
    /\ exc' = NoExc
    /\ UNCHANGED << mainVars, mgr_mode, conversation_history, initialized_clients,
                    model_map, last_request_time, turnVars, traceVars, faults >>

NextCache ==
    \/ CallGetClient
    \/ CallCleanup
    \/ CallFromConfig
    \/ CallAgain
    \/ CallRunConversation
    \/ TurnOk
    \/ TurnNonFatal
    \/ TurnFatal
    \/ CallerDone

SpecCache == InitCache /\ [][NextCache]_vars

(***************************************************************************)
(* One call of AdaptiveInstructionManager.generate_instructions            *)
(***************************************************************************)
\* a manager constructed with self_mode is about to be called
InitInstr ==
    /\ pc = "instr"
    /\ google_api_key = TRUE
    /\ initial_prompt = MAIN_PROMPT
    /\ script = << "A", "B", "C", "D" >>
    /\ mode = Modes[1]
    /\ rounds = DEFAULT_ROUNDS
    /\ file_config = NoFile
    /\ human_model = HUMAN_MODEL
    /\ ai_model = AI_MODEL
    /\ gi \in [phase : { "call" },
                self_mode : { "ai-ai", "human-aiai", "default" },
                templates : Registries,
                analysis : Analyses,
                history : HistoryArgs,
                domain : DomainArgs,
                mode : { "ai-ai", "human-aiai" },
                role : { "user", "assistant" },
                result : { NoResult }]
    /\ InitManager

\* the call is made
GenerateInstructions ==
    /\ pc = "instr"
    /\ gi.phase = "call"
    /\ gi' = [gi EXCEPT !.phase = "done",
                        !.result = generate_instructions(gi.self_mode, gi.templates,
                                                         gi.analysis, gi.history,
                                                         gi.domain, gi.mode, gi.role)]
    /\ UNCHANGED << pc, google_api_key, initial_prompt, script, mode, rounds,
                    file_config, human_model, ai_model, modeIx, retry_count, conversation, outcome, attempts,
                    sleeps, saved, arbiter_args, exc, mgr_mode, conversation_history,
                    initialized_clients, model_map, last_request_time, turnVars,
                    traceVars, faults >>

SpecInstr == InitInstr /\ [][GenerateInstructions]_vars

(***************************************************************************)
(* run_conversation_turn called by a caller of the manager, turn by turn   *)
(***************************************************************************)
\* calls of run_conversation_turn the caller makes
MaxTurnCalls == 3

\* the role argument of a call, in the spellings mapped_role knows
TurnRoles == { "user", "human", "assistant" }

\* a manager constructed with the mode, whose clients for the two models the
\* caller has got from _get_client; no conversation has been run
InitTurn ==
    /\ pc = "caller"
    /\ google_api_key = TRUE
    /\ initial_prompt = MAIN_PROMPT
    /\ script = << "A", "B", "C", "D" >>
    /\ mode \in CallerModes
    /\ rounds = DEFAULT_ROUNDS
    /\ file_config = NoFile
    /\ human_model = HUMAN_MODEL
    /\ ai_model = AI_MODEL
    /\ gi = NoInstr
    /\ modeIx = 1
    /\ retry_count = 0
    /\ conversation = << << >>, << >>, << >> >>
    /\ outcome = << "none", "none", "none" >>
    /\ attempts = << 0, 0, 0 >>
    /\ sleeps = << << >>, << >>, << >> >>
    /\ saved = << >>
    /\ arbiter_args = << >>
    /\ exc = NoExc
    /\ mgr_mode = mode
    /\ conversation_history = << >>
    /\ initialized_clients = { HUMAN_MODEL, AI_MODEL }
    /\ model_map = [ n \in { HUMAN_MODEL, AI_MODEL } |-> mode ]
    /\ last_request_time = 0
    /\ round_index = 0
    /\ turn = "user"
    /\ human_response = ""
    /\ ai_response = ""
    /\ lastCall = NoCall
    /\ lastErr = NoErr
    /\ reports = 0
    /\ since_request = min_delay
    /\ request_gap = min_delay
    /\ requests = 0
    /\ faults = 0
    /\ file_data = NoFile

\* the caller calls run_conversation_turn(prompt, model_type, client, mode,
\* role): the role is the caller's choice, the prompt is the response of the
\* call before (the caller keeps it in both response locals)
CallRunConversationTurn ==
    /\ pc = "caller"
    /\ requests < MaxTurnCalls
    /\ \E role \in TurnRoles : turn' = role
    /\ pc' = "called"
    /\ UNCHANGED << mainVars, exc, mgr_mode, conversation_history, initialized_clients,
                    model_map, last_request_time, round_index, human_response,
                    ai_response, file_data, traceVars, faults >>

\* the call when the client returns a reply: the reply is appended and returned
CalledTurnOk ==
    /\ pc = "called"
    /\ \E dt \in Elapsed, returned \in ReturnedArguments, response \in Responses :
         /\ ClientCalled(dt, returned, response)
         /\ conversation_history' =
                Append(LiveAfterCall(returned),
                       Msg(AppendedRole(mode, turn),
                           ContentOf(normalize_response(response))))
         /\ human_response' = ContentOf(normalize_response(response))
         /\ ai_response' = ContentOf(normalize_response(response))
    /\ pc' = "caller"
    /\ UNCHANGED << mainVars, exc, mgr_mode, initialized_clients, model_map,
                    round_index, turn, file_data, lastErr, reports, faults >>

\* the call when the client raises and no fatal signal matches: the error
\* note is appended and the error text returned
CalledTurnNonFatal ==
    /\ pc = "called"
    /\ faults < MaxFaults
    /\ \E dt \in Elapsed, returned \in ReturnedArguments,
          type \in ErrTypes, error_str \in NonFatalClientErrors :
         /\ ClientCalled(dt, returned, NoResponse)
         /\ lastErr' = [msg |-> error_str, handled |-> "non-fatal",
                         at |-> << modeIx, attempts[modeIx], requests + 1 >>]
         /\ conversation_history' =
                Append(LiveAfterCall(returned),
                       Msg("system", NonFatalErrorMessage(TurnModel(turn), turn, error_str)))
         /\ human_response' = NonFatalResponse(error_str)
         /\ ai_response' = NonFatalResponse(error_str)
    /\ faults' = faults + 1
    /\ pc' = "caller"
    /\ UNCHANGED << mainVars, exc, mgr_mode, initialized_clients, model_map,
                    round_index, turn, file_data, reports >>

\* the call when the client raises and a fatal signal matches: the exception
\* reaches the caller, who makes no further call
CalledTurnFatal ==
    /\ pc = "called"
    /\ faults < MaxFaults
    /\ \E dt \in Elapsed, returned \in ReturnedArguments,
          type \in ErrTypes, error_str \in FatalClientErrors, report_ok \in BOOLEAN :
         /\ ClientCalled(dt, returned, NoResponse)
         /\ ~report_ok => faults + 2 <= MaxFaults
         /\ faults' = faults + (IF report_ok THEN 1 ELSE 2)
         /\ lastErr' = [msg |-> error_str, handled |-> "fatal",
                         at |-> << modeIx, attempts[modeIx], requests + 1 >>]
         /\ IF report_ok
            THEN /\ reports' = reports + 1
                 /\ conversation_history' =
                        Append(LiveAfterCall(returned),
                               Msg("system", FatalErrorMessage(TurnModel(turn), error_str)))
            ELSE /\ conversation_history' = LiveAfterCall(returned)
                 /\ UNCHANGED reports
         /\ exc' = EscapingException(type, error_str, TurnModel(turn))
    /\ pc' = "done"
    /\ UNCHANGED << mainVars, mgr_mode, initialized_clients, model_map, turnVars >>

NextTurn ==
    \/ CallRunConversationTurn
    \/ CalledTurnOk
    \/ CalledTurnNonFatal
    \/ CalledTurnFatal

SpecTurn == InitTurn /\ [][NextTurn]_vars

(***************************************************************************)
(* Properties                                                              *)
(***************************************************************************)
\* the role of the turn that writes position i (1-based; position 1 is message 0)
TurnRoleAt(i) == IF i % 2 = 0 THEN "user" ELSE "assistant"

\* the sub-runs of main in a meta-prompting mode whose history run_conversation
\* returned after the last turn
ReturnedMeta ==
    { ix \in 1..Len(Modes) :
        Modes[ix] \in { "ai-ai", "human-aiai" } /\ outcome[ix] = "returned" }

\* C1, as stated: in every history returned by a completed run_conversation in
\* mode ai-ai or human-aiai, the roles after message 0 alternate strictly
\* user, assistant, user, ... whatever the client calls did.
C1_StrictAlternation ==
    \A ix \in ReturnedMeta :
        \A i \in 2..Len(conversation[ix]) : conversation[ix][i].role = TurnRoleAt(i)

\* C1, amended: every position after message 0 holds the message of its turn,
\* user at the odd turns and assistant at the even ones, or, when that turn's
\* client call failed with a non-fatal error, the system message
\* "Error with <model> (<role>): ..." written in its place.
C1_AlternationOrErrorNote ==
    \A ix \in ReturnedMeta :
        \A i \in 2..Len(conversation[ix]) :
            LET m == conversation[ix][i]
            IN  \/ m.role = TurnRoleAt(i)
                \/ /\ m.role = "system"
                   /\ StartsWith(m.content,
                                 "Error with " \o TurnModel(TurnRoleAt(i)) \o " ("
                                     \o TurnRoleAt(i) \o "): ")

\* a returned human-aiai history with a user turn that failed and turns that did not
C1_Witness ==
    /\ 2 \in ReturnedMeta
    /\ conversation[2][2].role = "system"
    /\ conversation[2][3].role = "assistant"
    /\ conversation[2][4].role = "user"

\* the core topic of each prompt a caller passes, worked out by hand from the
\* extraction rules of run_conversation
TopicOfPrompt(p) ==
    IF p = "Topic: tides\nGOAL: swim" THEN "Discuss: tides\nGOAL: swim"
    ELSE IF p = "GOAL: build (a raft) now" THEN "GOAL: a raft"
    ELSE IF p = "GOAL: row\nfast" THEN "GOAL: row"
    ELSE IF p = "  compare apples \n" THEN "compare apples"
    ELSE "GOAL: Write a short story about a detective solving a mystery."

\* the same for the prompt run_conversation_with_file works on: the file context
\* put in front shows in the topic of a prompt without "Topic:" and "GOAL:"
TopicOfPromptWithFile(p) ==
    IF p = "  compare apples \n"
    THEN "Analyzing text file: notes.txt\n\n  compare apples"
    ELSE TopicOfPrompt(p)

\* message 0 is m: while the loop runs, and in the history a completed run returned
MessageZeroIs(m) ==
    /\ pc = "turn" => conversation_history[1] = m
    /\ outcome[1] = "returned" =>
          /\ conversation[1][1] = m
          /\ conversation[1] = conversation_history

C3_RoleSwappedCopy ==
    (lastCall.mode = "human-aiai" /\ lastCall.role = "user") =>
        /\ Len(lastCall.history) = Len(lastCall.before)
        /\ \A i \in 1..Len(lastCall.before) :
             LET m == lastCall.before[i]
                 p == lastCall.history[i]
             IN  /\ p.content = m.content
                 /\ m.role = "assistant" => p.role = "user"
                 /\ m.role = "user" => p.role = "assistant"
                 /\ m.role = "system" => p.role = "system"

\* the example of the claim: the user turn of the third round of a human-aiai
\* run sees [sys, user A, assistant B, user C, assistant D]
C3_Witness ==
    /\ lastCall.mode = "human-aiai"
    /\ lastCall.role = "user"
    /\ Len(lastCall.before) = 5
    /\ [i \in 2..5 |-> lastCall.before[i]] =
          [i \in 2..5 |-> Msg(TurnRoleAt(i), script[i - 1])]
    /\ [i \in 2..5 |-> lastCall.history[i]] =
          [i \in 2..5 |-> Msg(TurnRoleAt(i + 1), script[i - 1])]

(***************************************************************************)
(* The error classes of the specification: case-insensitive substring      *)
(* match on the message, the first row that matches                        *)
(***************************************************************************)
ErrorClass(msg) ==
    LET m == Lower(msg)
    IN  IF \/ /\ Contains(m, "api key")
              /\ \/ Contains(m, "missing")
                 \/ Contains(m, "not provided")
                 \/ Contains(m, "no api key")
           \/ Contains(m, "authentication failed")
           \/ Contains(m, "api key not valid")
        THEN "FATAL_AUTH"
        ELSE IF Contains(m, "quota exceeded")
        THEN "FATAL_QUOTA"
        ELSE IF \/ Contains(m, "connection aborted")
                \/ Contains(m, "remote end closed")
                \/ Contains(m, "connection refused")
                \/ Contains(m, "max retries exceeded")
                \/ Contains(m, "read timed out")
                \/ Contains(m, "service unavailable")
        THEN "FATAL_CONNECTION"
        ELSE "NON_FATAL"

\* the messages an exception of the model can carry
ErrorMsgs ==
    ClientErrorMsgs \cup
    { "Missing required API key for " \o n \o ": " \o c :
        n \in { HUMAN_MODEL, AI_MODEL }, c \in CtorFailures }

ConnectionMsgs == { m \in ErrorMsgs : ErrorClass(m) = "FATAL_CONNECTION" }

AuthOrQuotaMsgs == { m \in ErrorMsgs : ErrorClass(m) \in { "FATAL_AUTH", "FATAL_QUOTA" } }

FatalMsgs == { m \in ErrorMsgs : ErrorClass(m) # "NON_FATAL" }

\* C4: a run that fails with an error whose message contains "Connection
\* aborted" on the first or second attempt is run again, after a sleep of 5 s
\* before the second attempt and of 10 s before the third.
C4_ConnectionAbortedRetried ==
    [][ (/\ pc = "except"
         /\ attempts[modeIx] <= max_retries
         /\ Contains(exc.msg, "Connection aborted"))
        => (/\ pc' = "call"
            /\ sleeps'[modeIx] = Append(sleeps[modeIx], 5 * attempts[modeIx])) ]_vars

\* C5: main runs a failed run again only when the failure is of class
\* FATAL_CONNECTION; a failure of class FATAL_AUTH or FATAL_QUOTA is not run
\* again: a fatal error report has been written and the error is raised (it
\* leaves main).
C5_OnlyConnectionRetried ==
    [][ pc = "except" =>
          /\ pc' = "call" => exc.msg \in ConnectionMsgs
          /\ exc.msg \in AuthOrQuotaMsgs => (pc' = "crashed" /\ reports > 0) ]_vars

\* C6: when the third attempt of a sub-run fails with a FATAL_CONNECTION error,
\* the conversation recorded for the sub-run is the degraded history
\* [{system, initial_prompt}, {system, "ERROR: ... conversation could not be
\* completed."}].
C6_ExhaustionDegrades ==
    [][ (/\ pc = "except"
         /\ attempts[modeIx] = max_retries + 1
         /\ exc.msg \in ConnectionMsgs)
        => (/\ pc' = "after"
            /\ Len(conversation'[modeIx]) = 2
            /\ conversation'[modeIx][1] = Msg("system", initial_prompt)
            /\ conversation'[modeIx][2].role = "system"
            /\ StartsWith(conversation'[modeIx][2].content, "ERROR: ")
            /\ EndsWith(conversation'[modeIx][2].content,
                        "onversation could not be completed.")) ]_vars

\* a run is in progress or has just returned, and its latest request is the one
\* lastErr is about
LastRequestFailed ==
    /\ pc \notin { "arbiter", "done" }
    /\ lastErr.at = << modeIx, attempts[modeIx], requests >>

\* C7: after a turn whose client call raised an error without fatal signal, the
\* history ends with the system message "Error with <model> (<role>): <msg>",
\* nothing is raised, the next turn is prompted with the error text
\* "Error: <msg>", and the loop goes on to the last turn of the last round: a
\* history is returned only after 2 * rounds client calls.
C7_NonFatalContinues ==
    /\ (lastErr.handled = "non-fatal" /\ LastRequestFailed) =>
          LET m == conversation_history[Len(conversation_history)]
          IN  /\ pc \in { "turn", "after" }
              /\ Len(conversation_history) = requests + 1
              /\ m.role = "system"
              /\ StartsWith(m.content, "Error with ")
              /\ EndsWith(m.content, "): " \o lastErr.msg)
              /\ pc = "turn" => TurnPrompt(turn) = "Error: " \o lastErr.msg
              /\ pc = "after" => requests = 2 * rounds
    /\ \A ix \in 1..Len(Modes) :
          outcome[ix] = "returned" => Len(conversation[ix]) = 1 + 2 * rounds

\* the first turn of a run has failed without fatal signal and the loop goes on
C7_Witness ==
    /\ lastErr.handled = "non-fatal"
    /\ LastRequestFailed
    /\ pc = "turn"
    /\ requests = 1
    /\ turn = "assistant"
    /\ lastErr.msg \notin FatalMsgs
    /\ human_response = "Error: " \o lastErr.msg

\* C8: run_conversation_turn takes a client error as fatal exactly when the
\* case-insensitive table of the specification gives it a fatal class.
C8_ClassifiedAsSpecified ==
    lastErr.handled # "none" => (lastErr.handled = "fatal" <=> lastErr.msg \in FatalMsgs)

\* C9: once an error of class FATAL_AUTH or FATAL_QUOTA has left
\* run_conversation, no run is started, no client request is made and the
\* arbiter is not called.
C9_AuthQuotaAborts ==
    [][ exc.msg \in AuthOrQuotaMsgs =>
          /\ attempts' = attempts
          /\ requests' = requests
          /\ arbiter_args' = arbiter_args ]_vars

\* C10: two consecutive outbound requests of the manager are at least
\* min_delay apart.
C10_RequestsSpaced == request_gap >= min_delay

(***************************************************************************)
(* C11: attachment of a conversation started with a file                   *)
(***************************************************************************)
\* C11: in a conversation started with a file the attachment is passed to the
\* client only on the first user turn: every later client call of the run (the
\* first assistant turn and all turns of later rounds) carries no attachment
C11_AttachmentOnFirstTurnOnly ==
    (pc \in { "turn", "after", "except", "done" } /\ requests >= 2)
        => lastCall.file_data = NoFile

(***************************************************************************)
(* C12: shape of the turn loop                                             *)
(***************************************************************************)
\* C12: the turn loop runs exactly `rounds` rounds of two turns each, the user
\* turn with the human model's client first and the assistant turn with the AI
\* model's client second: the k-th client call of a run is the user turn of
\* round (k-1) div 2 when k is odd and the assistant turn of that round when k
\* is even, no run makes more than 2 * rounds calls, and a run that returns
\* from the loop has made exactly 2 * rounds
C12_RoundsOfTwoTurns ==
    /\ requests <= 2 * rounds
    /\ requests > 0 =>
         /\ lastCall.turn = (IF requests % 2 = 1 THEN "user" ELSE "assistant")
         /\ lastCall.client = (IF requests % 2 = 1 THEN HUMAN_MODEL ELSE AI_MODEL)
         /\ lastCall.round = (requests - 1) \div 2
    /\ pc = "turn" =>
         /\ round_index < rounds
         /\ requests = 2 * round_index + (IF turn = "user" THEN 0 ELSE 1)
    /\ (pc \in { "after", "done" } /\ outcome[modeIx] = "returned") =>
         requests = 2 * rounds

\* a run of at least two rounds has returned from the loop
C12_Witness ==
    /\ pc = "after"
    /\ outcome[modeIx] = "returned"
    /\ rounds >= 2
    /\ requests = 2 * rounds
    /\ lastCall.turn = "assistant"
    /\ lastCall.client = AI_MODEL

(***************************************************************************)
(* C13: the prompt chain                                                   *)
(***************************************************************************)
\* what the turn that left `last` at the end of the history returned: the text
\* it appended, or "Error: <error>" when it appended the note of a non-fatal
\* error
ReturnedBy(last) ==
    IF last.role # "system" THEN { last.content }
    ELSE { NonFatalResponse(e) : e \in
             { x \in NonFatalClientErrors :
                 \E r \in { "user", "assistant" } :
                    last.content = NonFatalErrorMessage(TurnModel(r), r, x) } }

\* C13: the prompt of each turn is the response of the immediately preceding
\* counterpart turn, and the prompt of the very first turn is the core topic:
\* the first client call of a run is prompted with the content of message 0,
\* and every later call with what the turn before it returned (an assistant
\* turn with the user response of its round, a user turn with the assistant
\* response of the round before)
C13_PromptChain ==
    requests > 0 =>
        LET b == lastCall.before
        IN  /\ b # << >>
            /\ IF requests = 1
               THEN /\ Len(b) = 1
                    /\ lastCall.turn = "user"
                    /\ lastCall.prompt = b[1].content
               ELSE /\ Len(b) = requests
                    /\ lastCall.prompt \in ReturnedBy(b[Len(b)])
                    /\ b[Len(b)].role # "system" =>
                          b[Len(b)].role = (IF lastCall.turn = "user" THEN "assistant"
                                            ELSE "user")

\* the user turn of round 2 has been prompted with the assistant's reply of
\* round 1, which followed a user reply
C13_Witness ==
    /\ requests = 3
    /\ lastCall.turn = "user"
    /\ lastCall.round = 1
    /\ lastCall.prompt = "B"
    /\ lastCall.before[3] = Msg("assistant", "B")
    /\ lastCall.before[2] = Msg("user", "A")

(***************************************************************************)
(* C15: where the role swap applies                                        *)
(***************************************************************************)
\* C15: the role swap is applied only in human-aiai on user turns: in ai-ai
\* (user and assistant turns), in human-aiai assistant turns and in
\* no-meta-prompting (and its alias default) the history passed to the client
\* has exactly the (role, content) sequence of conversation_history, while a
\* human-aiai user turn over a history with user or assistant messages is
\* passed a different sequence
C15_SwapOnlyForHumanAiaiUser ==
    requests > 0 =>
        IF lastCall.mode = "human-aiai" /\ lastCall.turn = "user"
        THEN (\E i \in 1..Len(lastCall.before) :
                 lastCall.before[i].role \in { "user", "assistant" })
                => lastCall.history # lastCall.before
        ELSE lastCall.history = lastCall.before

\* an ai-ai user turn of a later round has been passed the unswapped history
C15_Witness ==
    /\ lastCall.mode = "ai-ai"
    /\ lastCall.turn = "user"
    /\ requests >= 3
    /\ lastCall.before[2] = Msg("user", "A")
    /\ lastCall.before[3] = Msg("assistant", "B")
    /\ lastCall.history = lastCall.before

(***************************************************************************)
(* C14: the history handed to a client                                     *)
(***************************************************************************)
\* C14: the history handed to client.generate_response is a defensive copy:
\* on return of the call, whichever client class served it, the list that was
\* passed holds what it held when it was passed and conversation_history holds
\* what it held before the call; the only change of conversation_history in a
\* turn is the manager's append of one message after the call
C14_ClientLeavesHistory ==
    requests > 0 =>
        /\ PassedList(lastCall.mode, lastCall.turn) # "live"
        /\ lastCall.argument_intact
        /\ lastCall.history_intact
        /\ \/ conversation_history = lastCall.before
           \/ /\ Len(conversation_history) = Len(lastCall.before) + 1
              /\ SubSeq(conversation_history, 1, Len(lastCall.before)) = lastCall.before

\* the second call of a run has returned and its reply has been appended
C14_Witness ==
    /\ requests = 2
    /\ Len(lastCall.history) = 2
    /\ lastCall.argument_intact
    /\ lastCall.history_intact
    /\ conversation_history = Append(lastCall.before, Msg("assistant", "B"))

(***************************************************************************)
(* C16: order of the template selection                                    *)
(***************************************************************************)
\* the base template the specification's table gives for a context
TemplateByTable(c) ==
    IF c.topic_evolution < 2 THEN "exploratory"
    ELSE IF c.semantic_coherence < 5 THEN "structured"
    ELSE IF c.cognitive_load > 8 THEN "synthesis"
    ELSE IF c.knowledge_depth > 8 THEN "critical"
    ELSE "exploratory"

\* C16: template selection checks its conditions in order and the first match
\* wins: fewer than 2 topics give exploratory whatever the metrics are;
\* otherwise coherence below 0.5 gives structured; otherwise load above 0.8
\* gives synthesis; otherwise depth above 0.8 gives critical; otherwise
\* exploratory. The values 0.5 and 0.8 themselves trigger nothing
C16_SelectionOrder ==
    (gi.phase = "done" /\ gi.result.selected /\ gi.result.kind = "return") =>
        /\ EndsWith(gi.result.key, TemplateByTable(gi.analysis.context))
        /\ gi.result.key \in DOMAIN gi.templates
        /\ (gi.analysis.context.topic_evolution >= 2
              /\ gi.analysis.context.semantic_coherence = 5
              /\ gi.analysis.context.cognitive_load = 8
              /\ gi.analysis.context.knowledge_depth = 8)
             => EndsWith(gi.result.key, "exploratory")

\* low coherence has won over high load and high depth
C16_Witness ==
    /\ gi.phase = "done"
    /\ gi.result.kind = "return"
    /\ gi.analysis.context.topic_evolution = 2
    /\ gi.analysis.context.semantic_coherence = 4
    /\ gi.analysis.context.cognitive_load = 9
    /\ gi.analysis.context.knowledge_depth = 9
    /\ EndsWith(gi.result.key, "structured")

(***************************************************************************)
(* C17: the prefix of the template key                                     *)
(***************************************************************************)
\* C17: for every generate_instructions call made during a conversation run
\* in mode m, the selected template key carries the prefix "ai-ai-" if and
\* only if m is ai-ai, whatever runs (returned early or failed included) the
\* manager has made before
C17_PrefixFollowsRunMode ==
    \A i \in DOMAIN lastCall.instructions :
        (SelectedPrefix(lastCall.instructions[i].self_mode) = "ai-ai-")
            <=> (lastCall.mode = "ai-ai")

(***************************************************************************)
(* C18: a registry without a required template                             *)
(***************************************************************************)
\* the call had valid arguments and its context was analyzed
ValidAnalyzedCall ==
    /\ gi.phase = "done"
    /\ gi.history.type = "list"
    /\ gi.domain.type = "str"
    /\ gi.analysis.raise = ""

\* C18: when the template registry lacks a required template (it holds only
\* exploratory, say), generate_instructions does not raise: it returns the
\* hard-coded fallback that starts with "You are a helpful assistant.", so
\* that the turn that asked for the instruction can complete
C18_MissingTemplateFallsBack ==
    (ValidAnalyzedCall
       /\ \E i \in 1..4 : required_templates(gi.self_mode)[i] \notin DOMAIN gi.templates)
      => /\ gi.result.kind = "return"
         /\ StartsWith(gi.result.text, "You are a helpful assistant.")

(***************************************************************************)
(* C19: failure of the template customization                              *)
(***************************************************************************)
\* the selected template cannot be formatted by _customize_template: it has a
\* field that is no argument of the format call, which for the human persona
\* (manager in ai-ai, or role user) is the case of {tokens} already
CustomizationFails ==
    /\ gi.result.key \in DOMAIN gi.templates
    /\ LET template == gi.templates[gi.result.key]
       IN  \/ Contains(template, "{audience}")
           \/ /\ Contains(template, "{tokens}")
              /\ (gi.self_mode = "ai-ai" \/ gi.role = "user")

\* C19: if template customization fails for any reason (a placeholder that
\* cannot be substituted, TemplateFormatError, included), generate_instructions
\* does not raise: it returns exactly "You are discussing {domain}. Be helpful
\* and think step by step." with the domain substituted
C19_CustomizationFallsBack ==
    (ValidAnalyzedCall /\ CustomizationFails) =>
        /\ gi.result.kind = "return"
        /\ gi.result.text =
             "You are discussing " \o gi.domain.value \o ". Be helpful and think step by step."

\* a template with {tokens} has failed to format for the user role and the
\* fallback with the domain has been returned
C19_Witness ==
    /\ ValidAnalyzedCall
    /\ CustomizationFails
    /\ gi.role = "user"
    /\ gi.self_mode = "human-aiai"
    /\ gi.result.key = "structured"
    /\ gi.templates["structured"] = "Explore {domain} in {tokens} tokens (structured)."
    /\ gi.result.text = "You are discussing GOAL: swim. Be helpful and think step by step."

(***************************************************************************)
(* C20: validation of the arguments of generate_instructions               *)
(***************************************************************************)
\* C20: generate_instructions called with a history that is not a list or a
\* domain that is not a string raises an input-validation error before the
\* context analyzer or the template selection is invoked; it never returns an
\* instruction, not even a fallback, for such input
C20_InvalidInputRaises ==
    (gi.phase = "done" /\ (gi.history.type # "list" \/ gi.domain.type # "str")) =>
        /\ gi.result.kind = "raise"
        /\ gi.result.type = "AdaptiveInstructionError"
        /\ StartsWith(gi.result.text, "Invalid input: ")
        /\ ~gi.result.analyzed
        /\ ~gi.result.selected

\* a call with a list for history and None for domain, whose analyzer would
\* have failed, has raised the validation error
C20_Witness ==
    /\ gi.phase = "done"
    /\ gi.history.type = "list"
    /\ gi.domain.type = "NoneType"
    /\ gi.analysis.raise # ""
    /\ gi.result.kind = "raise"
    /\ gi.result.text = "Invalid input: Domain must be a string, got <class 'NoneType'>"

(***************************************************************************)
(* C21: generate_instructions as a function of its arguments               *)
(***************************************************************************)
\* the modes an AdaptiveInstructionManager can have been constructed with
ManagerModes == { "ai-ai", "human-aiai", "default" }

\* what a manager constructed with self_mode would have answered to the call
AnswerOfManager(self_mode) ==
    generate_instructions(self_mode, gi.templates, gi.analysis, gi.history,
                          gi.domain, gi.mode, gi.role)

\* C21: generate_instructions is a function of (history, domain, mode, role):
\* with the same analyzer and the same registry, the call gets the same
\* output whichever manager instance serves it
C21_SameOutputFromAnyManager ==
    gi.phase = "done" =>
        \A self_mode \in ManagerModes : AnswerOfManager(self_mode) = gi.result

(***************************************************************************)
(* C22: topic extraction applied to its own result                         *)
(***************************************************************************)
\* C22: topic extraction is idempotent: when the core topic extracted from the
\* prompt of a run (message 0) starts with "GOAL:" or "Discuss:", extracting
\* the core topic of that text gives the same text again
C22_ExtractionIdempotent ==
    conversation_history # << >> =>
        LET core_topic == conversation_history[1].content
        IN  (StartsWith(core_topic, "GOAL:") \/ StartsWith(core_topic, "Discuss:"))
                => ExtractCoreTopic(core_topic) = core_topic

(***************************************************************************)
(* C23: the three rules of topic extraction                                *)
(***************************************************************************)
\* the prompt the extraction of the run works on
RunPrompt ==
    IF file_config = NoFile THEN initial_prompt
    ELSE PromptWithFile(initial_prompt, file_config)

\* the core topic by the three rules as they are stated, first match wins
TopicByRules(p) ==
    IF Contains(p, "Topic:")
    THEN "Discuss: " \o Strip(SplitHead(SplitRest(p, "Topic:"), "\n"))
    ELSE IF Contains(p, "GOAL:")
    THEN LET segment == Strip(SplitHead(SplitRest(p, "GOAL:"), "\n"))
         IN  IF Contains(segment, "(") /\ Contains(SplitRest(segment, "("), ")")
             THEN "GOAL: " \o Strip(SplitHead(SplitRest(segment, "("), ")"))
             ELSE "GOAL: " \o segment
    ELSE Strip(p)

\* C23: the core topic (message 0) of run_conversation and of
\* run_conversation_with_file follows the three rules, first match wins:
\* "Discuss: " and the text after "Topic:" up to the next newline; else
\* "GOAL: " and the text after "GOAL:" up to the first newline, or the text
\* inside the first parenthesized group of that line; else the trimmed prompt
C23_TopicFollowsRules ==
    conversation_history # << >> =>
        conversation_history[1].content = TopicByRules(RunPrompt)

(***************************************************************************)
(* C24: lazy creation and caching of the clients                           *)
(***************************************************************************)
\* the step ran cleanup_unused_clients: the loop was left (finally), or main
\* ended (finally), or a run with no round returned through the finally
CleanupStep ==
    \/ pc = "turn" /\ pc' # "turn"
    \/ pc' \in { "done", "crashed" } /\ pc \in { "arbiter", "except" }
    \/ pc \in { "call", "idle" } /\ pc' = "after" /\ outcome'[modeIx] = "returned"

\* C24: a client is constructed at the first _get_client for its model (with
\* the mode the manager has then) and recorded in the set and in the map;
\* every later _get_client before a cleanup returns that client and constructs
\* no other, in later runs of the manager too; cleanup_unused_clients leaves
\* the set and the map empty
C24_LazyCachedClients ==
    [][ /\ \A n \in initialized_clients' \ initialized_clients :
             /\ n \in DOMAIN model_map'
             /\ model_map'[n] = mgr_mode'
        /\ \A n \in initialized_clients \cap initialized_clients' :
             /\ n \in DOMAIN model_map'
             /\ model_map'[n] = model_map[n]
        /\ CleanupStep =>
             /\ initialized_clients' = {}
             /\ model_map' = EmptyMap ]_vars

\* the human-aiai run of main is in its loop with the human client an earlier
\* run constructed (in mode ai-ai) and an AI client it constructed itself
C24_Witness ==
    /\ pc = "turn"
    /\ mode = "human-aiai"
    /\ initialized_clients = { HUMAN_MODEL, AI_MODEL }
    /\ model_map[HUMAN_MODEL] = "ai-ai"
    /\ model_map[AI_MODEL] = "human-aiai"

(***************************************************************************)
(* C25: a model name _get_client does not know                             *)
(***************************************************************************)
\* the caller's run was made with a model name _get_client has no branch for
RunWithUnknownModel ==
    /\ pc # "idle"
    /\ attempts[1] > 0
    /\ human_model \notin KnownModels \/ ai_model \notin KnownModels

\* nothing was cached for an unknown name, no client was called, no turn ran
NothingDoneForUnknown ==
    /\ \A n \in { human_model, ai_model } \ KnownModels :
          n \notin initialized_clients /\ n \notin DOMAIN model_map
    /\ requests = 0
    /\ lastCall = NoCall
    /\ lastErr = NoErr
    /\ Len(conversation_history) <= 1

\* the run returned [] to its caller and raised nothing
ReturnedEmpty ==
    /\ pc \in { "after", "done" }
    /\ exc = NoExc
    /\ outcome[1] = "empty"
    /\ conversation[1] = << >>

\* C25, as stated: for a model id unknown to the factory _get_client returns
\* null and caches nothing, and run_conversation makes no client call and no
\* turn, raises no exception and returns to the caller
C25_UnknownModelReturns ==
    RunWithUnknownModel => NothingDoneForUnknown /\ ReturnedEmpty

\* the RuntimeError of _get_client for the known model of the run, whose
\* constructor failed for a missing API key
MissingKeyOfKnownModel ==
    /\ pc \in { "except", "done" }
    /\ exc.type = "RuntimeError"
    /\ \E n \in { human_model, ai_model } \cap KnownModels :
          StartsWith(exc.msg, "Missing required API key for " \o n \o ": ")

\* C25, amended: for a model id unknown to the factory _get_client returns
\* null and caches nothing, and run_conversation makes no client call and no
\* turn; it returns [] to the caller without an exception, unless the
\* constructor of the run's other, known model fails for a missing API key:
\* then the RuntimeError "Missing required API key for <model>: ..." of
\* _get_client leaves run_conversation
C25_UnknownModelReturnsOrKeyMissing ==
    RunWithUnknownModel =>
        /\ NothingDoneForUnknown
        /\ ReturnedEmpty \/ MissingKeyOfKnownModel

\* run_conversation with an unknown human model has returned []: the client of
\* the known AI model was constructed and is still recorded
C25_Witness ==
    /\ RunWithUnknownModel
    /\ file_config = NoFile
    /\ human_model \notin KnownModels
    /\ ReturnedEmpty
    /\ initialized_clients = { AI_MODEL }
    /\ conversation_history = << Msg("system", "GOAL: a raft") >>

(***************************************************************************)
(* C26: the turns of a run in no-meta-prompting mode                       *)
(***************************************************************************)
\* the client call was the one of the branch without instructions: the fixed
\* minimal instruction, the full history unswapped and as a copy, and no
\* generate_instructions call by the manager for the turn
CalledWithoutMetaPrompting ==
    /\ lastCall.fixed_instruction =
          "You are a helpful assistant. Think step by step and respond to the user. "
              \o "RESTRICT OUTPUTS TO APPROX 2048 tokens"
    /\ lastCall.history = lastCall.before
    /\ PassedList(lastCall.mode, lastCall.turn) = "copy"
    /\ lastCall.instructions = << >>

\* C26: in no-meta-prompting mode every turn, the user's and the assistant's,
\* calls the client with the same fixed minimal instruction "You are a helpful
\* assistant. Think step by step ... RESTRICT OUTPUTS TO APPROX T tokens" and a
\* copy of the full unswapped history, and the manager never calls
\* generate_instructions
C26_NoMetaPromptingTurns ==
    (lastCall # NoCall /\ lastCall.mode = "no-meta-prompting")
        => CalledWithoutMetaPrompting

\* the user turn of the second round of a no-meta-prompting run has called its
\* client with a history that holds a user and an assistant message
C26_Witness ==
    /\ lastCall.mode = "no-meta-prompting"
    /\ lastCall.turn = "user"
    /\ lastCall.round = 1
    /\ Len(lastCall.before) = 3
    /\ lastCall.before[2].role = "user"
    /\ lastCall.before[3].role = "assistant"
    /\ CalledWithoutMetaPrompting

(***************************************************************************)
(* C27: mode default                                                       *)
(***************************************************************************)
\* C27: mode "default" is an alias of "no-meta-prompting": a run in mode
\* default makes the manager act as in no-meta-prompting, turn by turn: the
\* same fixed minimal instruction, the same unswapped copy of the history, no
\* call of generate_instructions, and the reply appended with the turn's role
C27_DefaultIsNoMetaPrompting ==
    (lastCall # NoCall /\ lastCall.mode = "default") =>
        /\ CalledWithoutMetaPrompting
        /\ lastCall.role = RoleForClient("no-meta-prompting", lastCall.turn)
        /\ AppendedRole(lastCall.mode, lastCall.turn)
              = AppendedRole("no-meta-prompting", lastCall.turn)

(***************************************************************************)
(* C29: a client request that is cancelled                                 *)
(***************************************************************************)
\* C29: when the client request of a turn is cancelled (it times out or is
\* aborted, an error of class FATAL_CONNECTION), no message is appended to
\* conversation_history for that turn, and the failed run is then run again
\* as long as the retry policy has an attempt left
C29_CancelledTurnAppendsNothing ==
    [][ /\ (/\ pc = "turn"
            /\ lastErr'.at # lastErr.at
            /\ lastErr'.msg \in ConnectionMsgs)
           => conversation_history' = conversation_history
        /\ (/\ pc = "except"
            /\ lastErr.msg \in ConnectionMsgs
            /\ exc.msg = lastErr.msg
            /\ retry_count < max_retries)
           => (pc' = "call" /\ retry_count' = retry_count + 1) ]_vars

C28_HumanIsUser ==
    /\ \A i \in DOMAIN conversation_history : conversation_history[i].role # "human"
    /\ lastCall.turn = "human" =>
          lastCall.history = HistoryForClient(lastCall.before, lastCall.mode, "user")

(***************************************************************************)
(* C31: the bound of the retry loop                                        *)
(***************************************************************************)
\* C31: for each of the three runs of main, run_conversation is invoked at
\* most max_retries + 1 = 3 times whatever errors the invocations raise, and
\* the wait before the k-th retry is k x 5 seconds: 5 s, then 10 s
C31_RetryLoopBounded ==
    \A ix \in 1..Len(Modes) :
        /\ attempts[ix] <= 3
        /\ Len(sleeps[ix]) <= 2
        /\ \A k \in 1..Len(sleeps[ix]) : sleeps[ix][k] = k * 5
        /\ attempts[ix] > 0 => Len(sleeps[ix]) \in { attempts[ix] - 1, attempts[ix] }
        /\ attempts[ix] = 3 => Len(sleeps[ix]) = 2

\* the ai-ai run has failed three times and was given up after waits of 5 s
\* and 10 s
C31_Witness ==
    /\ attempts[1] = 3
    /\ sleeps[1] = << 5, 10 >>
    /\ outcome[1] = "degraded"
    /\ StartsWith(exc.msg, "Fatal connection error")

(***************************************************************************)
(* C32: when the human persona is put on the instruction                   *)
(***************************************************************************)
\* the call has returned the customized template, not a fallback
CustomizedReturned ==
    /\ gi.phase = "done"
    /\ gi.result.kind = "return"
    /\ gi.result.key \in DOMAIN gi.templates
    /\ gi.result.text # FallbackInstruction(gi.domain.value)

\* the returned instruction carries the human persona and the domain
HasHumanPersona ==
    /\ Contains(gi.result.text, "NEVER REFER TO YOURSELF AS AN AI")
    /\ Contains(gi.result.text, gi.domain.value)

\* the selected template with {domain} and {tokens} substituted
PlainTemplate ==
    Strip(Format(gi.templates[gi.result.key],
                 [n \in { "domain", "tokens" } |->
                     IF n = "domain" THEN gi.domain.value ELSE TOKENS_PER_TURN]).text)

\* C32: generate_instructions applies the human-persona customization (the
\* output contains "NEVER REFER TO YOURSELF AS AN AI" and the substituted
\* domain) if and only if mode is ai-ai or the role is user/human, in ai-ai
\* for the user turn and the assistant turn alike; for the assistant role in
\* human-aiai the result is exactly the selected template with {domain} and
\* {tokens} substituted and nothing appended
C32_PersonaIffAiAiOrHuman ==
    CustomizedReturned =>
        /\ HasHumanPersona <=> (gi.mode = "ai-ai" \/ gi.role \in { "user", "human" })
        /\ (gi.mode = "human-aiai" /\ gi.role = "assistant") =>
               gi.result.text = PlainTemplate

(***************************************************************************)
(* C33: the domain given to generate_instructions                          *)
(***************************************************************************)
\* C33: for every adaptive turn (mode other than no-meta-prompting) the
\* domain passed to generate_instructions equals the extracted core topic,
\* the content of history[0], not the raw initial prompt
C33_DomainIsCoreTopic ==
    (lastCall.mode # "no-meta-prompting" /\ lastCall.before # << >>) =>
        \A i \in DOMAIN lastCall.instructions :
            lastCall.instructions[i].domain = lastCall.before[1].content

(***************************************************************************)
(* C34: the type of the content a turn appends                             *)
(***************************************************************************)
\* C34: every message a turn appends to conversation_history has a string
\* content: whatever value the backend returns, a list of any length
\* included, it is normalized to the text of element 0 before it is
\* appended, so that a raw list is never stored as the content of a message
C34_ContentIsString ==
    lastCall # NoCall =>
        /\ lastCall.content_type = "str"
        /\ lastCall.returned_type = "list" =>
               conversation_history[Len(conversation_history)].content # "[]"

(***************************************************************************)
(* C35: the call of the manager against the signatures of the clients      *)
(***************************************************************************)
\* C35: every client class the factory can return accepts the call the
\* manager makes (keywords prompt, system_instruction, history, role and
\* file_data): with a healthy backend no turn ends in the error of a keyword
\* the client does not know, the reply is appended with the role of the turn
C35_UniformContract ==
    /\ lastErr.msg \notin KeywordErrors
    /\ \A i \in DOMAIN conversation_history :
          conversation_history[i].role = "system" =>
              \A e \in KeywordErrors : ~Contains(conversation_history[i].content, e)

(***************************************************************************)
(* C36: the exception of a turn that failed fatally                        *)
(***************************************************************************)
\* the run has just been left by a turn whose client error matched the fatal
\* list and whose error report was written: the message about the error is
\* the last of the history
FatalTurnReported ==
    /\ pc = "except"
    /\ lastErr.handled = "fatal"
    /\ lastErr.at = << modeIx, attempts[modeIx], requests >>
    /\ conversation_history # << >>
    /\ conversation_history[Len(conversation_history)] =
           Msg("system", FatalErrorMessage(TurnModel(lastCall.turn), lastErr.msg))

\* C36: when the client error of a turn matches the fatal-error list and the
\* error report file is written, run_conversation_turn raises a RuntimeError
\* whose message contains "Fatal connection error", the type and the marker
\* the retry loop of main tests for, not the exception of the client
C36_FatalRaisesRuntimeError ==
    FatalTurnReported =>
        /\ exc.type = "RuntimeError"
        /\ Contains(exc.msg, "Fatal connection error")

(***************************************************************************)
(* C37: one message a turn                                                 *)
(***************************************************************************)
\* the message the latest turn has appended
LastAppended == conversation_history[Len(conversation_history)]

C37_WitnessNoRounds ==
    /\ outcome[1] = "returned"
    /\ rounds = 0
    /\ Len(conversation[1]) = 1

(***************************************************************************)
(* C38: a fresh history for every run                                      *)
(***************************************************************************)
\* C38: every run_conversation starts from a fresh history: on entry
\* conversation_history is a new list that holds the system message of the
\* core topic alone, so that the history of a run holds message 0 and one
\* message for each of its own requests and no message of an earlier run or
\* of a failed attempt, the "ERROR:" messages included; and a history
\* returned by an earlier run is not changed by a later run of the manager:
\* it is still what was saved when it was returned
C38_FreshHistoryEachRun ==
    /\ pc = "turn" =>
          /\ conversation_history[1] = Msg("system", ExtractCoreTopic(initial_prompt))
          /\ Len(conversation_history) = 1 + requests
          /\ requests = 2 * round_index + (IF turn = "user" THEN 0 ELSE 1)
          /\ \A i \in DOMAIN conversation_history :
                ~StartsWith(conversation_history[i].content, "ERROR:")
    /\ \A ix \in 1..Len(saved) :
          outcome[ix] = "returned" => conversation[ix] = saved[ix].conversation

\* the human-aiai run is in its second attempt, after an attempt that left an
\* "ERROR:" message behind, while the history the ai-ai run returned is held
C38_Witness ==
    /\ modeIx = 2
    /\ pc = "turn"
    /\ attempts[2] = 2
    /\ requests = 1
    /\ reports > 0
    /\ outcome[1] = "returned"
    /\ Len(conversation[1]) = 1 + 2 * rounds
    /\ Len(conversation_history) = 2

(***************************************************************************)
(* C39: the set of initialized clients and the map of clients              *)
(***************************************************************************)
\* C39: in every reachable state of a ConversationManager, under any
\* sequence of _get_client (success, unknown id or construction failure),
\* from_config, run_conversation and cleanup_unused_clients, the set
\* _initialized_clients equals the key set of model_map and every cached
\* value is a client, never None
C39_SetEqualsMapKeys ==
    /\ initialized_clients = DOMAIN model_map
    /\ \A n \in DOMAIN model_map : model_map[n] # ""

\* a manager built by from_config holds the client of the configured type
\* under the type and under the model id, after a run that cleaned up
C39_Witness ==
    /\ pc = "done"
    /\ attempts[1] > 0
    /\ initialized_clients = { "human", "ai", HUMAN_MODEL, AI_MODEL }
    /\ DOMAIN model_map = { "human", "ai", HUMAN_MODEL, AI_MODEL }
    /\ model_map["human"] = "human-ai"

\* a run has returned [] for a model name without a branch, past the cleanup,
\* and its first client is still cached
C39_WitnessUnknown ==
    /\ pc = "done"
    /\ outcome[1] = "empty"
    /\ human_model = HUMAN_MODEL
    /\ ai_model = "gemini-9-ultra"
    /\ initialized_clients = { HUMAN_MODEL }
    /\ DOMAIN model_map = { HUMAN_MODEL }

(***************************************************************************)
(* C40: what main hands to the arbiter                                     *)
(***************************************************************************)
\* the three histories of the arbiter call
ArbiterHistories ==
    << arbiter_args[1].ai_ai_convo, arbiter_args[1].human_ai_convo,
       arbiter_args[1].default_convo >>

\* C40: whenever main reaches the arbiter call, each of the three histories
\* it passes (ai-ai, human-aiai, no-meta-prompting) is not empty and begins
\* with a system message, whether the run completed, returned empty because a
\* client could not be created, or ended in the degraded error history; and
\* the three are produced in the order ai-ai, human-aiai, no-meta-prompting
C40_ArbiterGetsThreeHistories ==
    /\ arbiter_args # << >> =>
          /\ \A ix \in 1..3 :
                /\ ArbiterHistories[ix] # << >>
                /\ ArbiterHistories[ix][1].role = "system"
                /\ ArbiterHistories[ix] = saved[ix].conversation
                /\ outcome[ix] \in { "returned", "empty", "degraded" }
          /\ Len(saved) = 3
    /\ \A ix \in 2..3 : attempts[ix] > 0 => Len(saved) >= ix - 1
    /\ Len(saved) < modeIx => Len(saved) = modeIx - 1
    /\ pc = "turn" => mgr_mode = Modes[modeIx]
    /\ Modes = << "ai-ai", "human-aiai", "no-meta-prompting" >>

\* the arbiter has been called with the history of a completed ai-ai run, the
\* substitute for a human-aiai run that returned [] and the degraded history
\* of a no-meta-prompting run
C40_Witness ==
    /\ arbiter_args # << >>
    /\ outcome = << "returned", "empty", "degraded" >>
    /\ Len(ArbiterHistories[1]) = 1 + 2 * rounds
    /\ ArbiterHistories[2] = Failed(2, initial_prompt)
    /\ Len(ArbiterHistories[3]) = 2
    /\ EndsWith(ArbiterHistories[3][2].content, "Default conversation could not be completed.")

====
